---- MODULE Spec2Model ----
(***************************************************************************)
(* Model of volttron/platform/auth/auth.py (class AuthService): the policy *)
(* matcher, the pending-credential queue with its approve / deny / delete  *)
(* operations, the reload of the policy store into memory and the          *)
(* per-method authorization API.                                           *)
(*                                                                         *)
(* AuthEntry, AuthFile, dump_user, the agent registry (aip) and the ZAP    *)
(* loop that calls authenticate live in other files of the repository;     *)
(* they are modelled from their documented contract and are marked so      *)
(* where they are defined.                                                 *)
(***************************************************************************)
EXTENDS Integers, Sequences, FiniteSets, TLC

VARIABLES
    auth_allow,       \* AuthFile: the persisted allow list (sequence of entries)
    auth_deny,        \* AuthFile: the persisted deny list (sequence of entries)
    auth_entries,     \* AuthService.auth_entries: the in-memory snapshot
    _auth_pending,    \* AuthService._auth_pending
    _auth_approved,   \* AuthService._auth_approved
    _auth_denied,     \* AuthService._auth_denied
    allow_any,        \* AuthService.allow_any
    _is_connected,    \* AuthService._is_connected
    store_faults,     \* whether operations of the store may raise AuthException
    auth_data,        \* AuthFile.auth_data: the lists as of the last load()
    task,             \* read_auth_file while attached: position and locals
    sent,             \* the calls and frames the running reload has sent
    detached,         \* reconciliation greenlets whose join has timed out
    last              \* observation: the last call, its input, result and outcome

vars == <<auth_allow, auth_deny, auth_entries, _auth_pending, _auth_approved,
          _auth_denied, allow_any, _is_connected, store_faults, auth_data,
          task, sent, detached, last>>

\* What no operation of the service changes.
config == <<allow_any, _is_connected, store_faults>>

\* What only a reload of the attached service changes.
pipeline == <<auth_data, task, sent, detached>>

(***************************************************************************)
(* Bounds of the model.                                                    *)
(***************************************************************************)
\* The failures the pending and denied queues count together, and the
\* entries that approve, deny and delete write to the store.
MaxRetries == 3
MaxPromoted == 1

(***************************************************************************)
(* Values.                                                                 *)
(***************************************************************************)
None == "None"

\* A field of an AuthEntry: unpopulated, a literal, or a /regex/.  A regex is
\* represented by the set of values it fully matches.
NoField == [kind |-> "none", lang |-> {}]
Lit(v) == [kind |-> "lit", lang |-> {v}]
Regex(S) == [kind |-> "regex", lang |-> S]

\* os.getuid() of the coordinator and the pids the agent registry knows.
OwnUid == 1234
AgentPids == {7}

\* Addresses are the ":"-separated parts of the address string:
\* "localhost:1234" and "localhost:<uid>:<gid>:<pid>".
AddrC1 == <<"localhost", 1234>>
AddrAgent == <<"localhost", 1234, 5, 7>>
AddrOther == <<"localhost", 9999, 5, 6>>
Addresses == {AddrC1, AddrAgent, AddrOther}
Credentials == {"bob", "key1"}
UserIds == {"u1", "u2"}

Attempt(a, m, c) ==
    [domain |-> "vip", address |-> a, mechanism |-> m, credentials |-> <<c>>]
Attempts ==
    { Attempt(AddrC1, "NULL", "bob"),
      Attempt(AddrC1, "NULL", "key1"),
      Attempt(AddrAgent, "NULL", "bob"),
      Attempt(AddrOther, "NULL", "bob"),
      Attempt(AddrC1, "CURVE", "key1") }
NoAttempt ==
    [domain |-> None, address |-> <<>>, mechanism |-> None, credentials |-> <<>>]

NoRpc == [m \in {} |-> <<>>]

\* AuthEntry(**fields): groups, roles and capabilities given as "" are empty.
AuthEntry(domain, address, mechanism, credentials, user_id, identity, enabled) ==
    [domain |-> domain, address |-> address, mechanism |-> mechanism,
     credentials |-> credentials, user_id |-> user_id, identity |-> identity,
     capabilities |-> <<>>, groups |-> <<>>, roles |-> <<>>,
     rpc_method_authorizations |-> NoRpc, enabled |-> enabled,
     comments |-> None]

\* The policy entries a store may hold before the service starts.
EntryPattern ==
    AuthEntry(NoField, Regex(Addresses), "NULL", Regex(Credentials), "wild", None, TRUE)
EntryLiteral ==
    AuthEntry(NoField, Lit(AddrC1), "NULL", Lit("bob"), "bob_id", None, TRUE)
EntryBroad ==
    AuthEntry(Lit("vip"), Regex(Addresses), "NULL", Lit("bob"), "anybob", None, TRUE)
EntryDisabled ==
    AuthEntry(NoField, Lit(AddrOther), "NULL", Lit("bob"), "off", None, FALSE)
EntryNoUser ==
    AuthEntry(Lit("vip"), NoField, "CURVE", Lit("key1"), None, None, TRUE)
Catalog == {EntryPattern, EntryLiteral, EntryBroad, EntryDisabled, EntryNoUser}

StoreLists ==
    { <<>>,
      <<EntryPattern, EntryLiteral>>,
      <<EntryLiteral, EntryPattern>>,
      <<EntryBroad, EntryLiteral>>,
      <<EntryDisabled, EntryNoUser>> }

(***************************************************************************)
(* Sequence helpers.                                                       *)
(***************************************************************************)
RemoveAt(s, i) == SubSeq(s, 1, i - 1) \o SubSeq(s, i + 1, Len(s))

Range(s) == {s[i] : i \in 1..Len(s)}

\* Index of the first element of s that is in hits, 0 if none.
FirstIndex(s, hits) ==
    IF \E i \in 1..Len(s) : s[i] \in hits
    THEN CHOOSE i \in 1..Len(s) :
            s[i] \in hits /\ \A j \in 1..(i - 1) : s[j] \notin hits
    ELSE 0

(***************************************************************************)
(* AuthEntry (volttron/platform/auth/auth_entry.py).                       *)
(***************************************************************************)
\* A stored field against a presented value: an unpopulated field accepts
\* anything, a literal by equality, a regex by full match.
FieldMatch(f, x) ==
    CASE f.kind = "none" -> TRUE
      [] f.kind = "lit" -> f.lang = {x}
      [] OTHER -> x \in f.lang

\* AuthEntry.match(domain, address, mechanism, credentials)
Match(entry, domain, address, mechanism, credentials) ==
    /\ FieldMatch(entry.domain, domain)
    /\ FieldMatch(entry.address, address)
    /\ entry.mechanism = mechanism
    /\ Len(credentials) > 0
    /\ FieldMatch(entry.credentials, credentials[1])

\* The order of entries: literal credentials before regex credentials.
IsPattern(entry) == entry.credentials.kind = "regex"
IsLiteral(entry) == ~IsPattern(entry)

\* Faulty variant of Sort: the snapshot keeps the order of the store.
SortOmitted(entries) == entries

\* entries.sort(): a stable sort under that order.
Sort(entries) == SelectSeq(entries, IsLiteral) \o SelectSeq(entries, IsPattern)

(***************************************************************************)
(* auth_utils.dump_user and the agent registry.                            *)
(***************************************************************************)
NoUser ==
    [kind |-> "none", id |-> None, domain |-> None, address |-> <<>>,
     mechanism |-> None, credentials |-> <<>>]
UserId(id) == [NoUser EXCEPT !.kind = "id", !.id = id]
\* dump_user(domain, address, mechanism, *credentials[:1])
dump_user(domain, address, mechanism, credentials) ==
    [kind |-> "dump", id |-> None, domain |-> domain, address |-> address,
     mechanism |-> mechanism, credentials |-> credentials]
\* aip.agent_uuid_from_pid(pid)
agent_uuid_from_pid(pid) == IF pid \in AgentPids THEN "agent-uuid" ELSE None

(***************************************************************************)
(* AuthService.authenticate                                                *)
(***************************************************************************)
FirstCredential(credentials) == SubSeq(credentials, 1, 1)

\* address.startswith("localhost:")
IsLocalhost(address) == Len(address) >= 2 /\ address[1] = "localhost"

\* Faulty variant of authenticate_fallback: the uid of the address is looked at
\* before the agent registry.
authenticate_fallback_uid_first(domain, address, mechanism, credentials) ==
    LET parts == Tail(address)
        agent_uuid == IF Len(parts) > 2 THEN agent_uuid_from_pid(parts[3]) ELSE None
    IN  IF mechanism = "NULL" /\ IsLocalhost(address) /\ parts[1] = OwnUid
        THEN dump_user(domain, address, mechanism, FirstCredential(credentials))
        ELSE IF mechanism = "NULL" /\ IsLocalhost(address) /\ agent_uuid # None
        THEN dump_user(domain, address, "AGENT", <<agent_uuid>>)
        ELSE IF allow_any
        THEN dump_user(domain, address, mechanism, FirstCredential(credentials))
        ELSE NoUser

\* The fallbacks tried after the loop over auth_entries found no match.
authenticate_fallback(domain, address, mechanism, credentials) ==
    LET parts == Tail(address)
        agent_uuid == IF Len(parts) > 2 THEN agent_uuid_from_pid(parts[3]) ELSE None
    IN  IF mechanism = "NULL" /\ IsLocalhost(address) /\ agent_uuid # None
        THEN dump_user(domain, address, "AGENT", <<agent_uuid>>)
        ELSE IF mechanism = "NULL" /\ IsLocalhost(address) /\ parts[1] = OwnUid
        THEN dump_user(domain, address, mechanism, FirstCredential(credentials))
        ELSE IF allow_any
        THEN dump_user(domain, address, mechanism, FirstCredential(credentials))
        ELSE NoUser

authenticate(domain, address, mechanism, credentials) ==
    LET Hit(entry) == Match(entry, domain, address, mechanism, credentials)
        i == FirstIndex(auth_entries, {x \in Range(auth_entries) : Hit(x)})
    IN  IF i # 0
        THEN IF auth_entries[i].user_id # None
             THEN UserId(auth_entries[i].user_id)
             ELSE dump_user(domain, address, mechanism, FirstCredential(credentials))
        ELSE authenticate_fallback(domain, address, mechanism, credentials)

(***************************************************************************)
(* AuthService._update_auth_pending                                        *)
(***************************************************************************)
\* A queue record, as _update_auth_lists and _update_auth_pending build it.
QueueRecord(domain, address, mechanism, credentials, user_id, retries) ==
    [domain |-> domain, address |-> address, mechanism |-> mechanism,
     credentials |-> credentials, user_id |-> user_id, retries |-> retries]

\* entry["domain"] == domain and ... and entry["credentials"] == credential
SameTuple(rec, domain, address, mechanism, credential) ==
    /\ rec.domain = Lit(domain)
    /\ rec.address = Lit(address)
    /\ rec.mechanism = mechanism
    /\ rec.credentials = Lit(credential)

\* Faulty variant of _update_auth_pending: a new record starts with retries 0.
_update_auth_pending_from_zero(domain, address, mechanism, credential, user_id) ==
    LET Same(rec) == SameTuple(rec, domain, address, mechanism, credential)
        d == FirstIndex(_auth_denied, {x \in Range(_auth_denied) : Same(x)})
        p == FirstIndex(_auth_pending, {x \in Range(_auth_pending) : Same(x)})
    IN  IF d # 0
        THEN [denied |-> [_auth_denied EXCEPT ![d].retries = @ + 1],
              pending |-> _auth_pending]
        ELSE IF p # 0
        THEN [denied |-> _auth_denied,
              pending |-> [_auth_pending EXCEPT ![p].retries = @ + 1]]
        ELSE [denied |-> _auth_denied,
              pending |-> Append(_auth_pending,
                                 QueueRecord(Lit(domain), Lit(address), mechanism,
                                             Lit(credential), user_id, 0))]

\* Faulty variant of _update_auth_pending: a denied record that is tried
\* again goes back to the pending queue.
_update_auth_pending_requeued(domain, address, mechanism, credential, user_id) ==
    LET Same(rec) == SameTuple(rec, domain, address, mechanism, credential)
        d == FirstIndex(_auth_denied, {x \in Range(_auth_denied) : Same(x)})
        p == FirstIndex(_auth_pending, {x \in Range(_auth_pending) : Same(x)})
    IN  IF d # 0
        THEN [denied |-> RemoveAt(_auth_denied, d),
              pending |-> Append(_auth_pending,
                                 [_auth_denied[d] EXCEPT !.retries = @ + 1])]
        ELSE IF p # 0
        THEN [denied |-> _auth_denied,
              pending |-> [_auth_pending EXCEPT ![p].retries = @ + 1]]
        ELSE [denied |-> _auth_denied,
              pending |-> Append(_auth_pending,
                                 QueueRecord(Lit(domain), Lit(address), mechanism,
                                             Lit(credential), user_id, 1))]

\* Faulty variant of _update_auth_pending: the pending queue is not searched.
_update_auth_pending_no_dedup(domain, address, mechanism, credential, user_id) ==
    LET Same(rec) == SameTuple(rec, domain, address, mechanism, credential)
        d == FirstIndex(_auth_denied, {x \in Range(_auth_denied) : Same(x)})
    IN  IF d # 0
        THEN [denied |-> [_auth_denied EXCEPT ![d].retries = @ + 1],
              pending |-> _auth_pending]
        ELSE [denied |-> _auth_denied,
              pending |-> Append(_auth_pending,
                                 QueueRecord(Lit(domain), Lit(address), mechanism,
                                             Lit(credential), user_id, 1))]

\* The queues after _update_auth_pending(domain, address, mechanism,
\* credential, user_id).
_update_auth_pending(domain, address, mechanism, credential, user_id) ==
    LET Same(rec) == SameTuple(rec, domain, address, mechanism, credential)
        d == FirstIndex(_auth_denied, {x \in Range(_auth_denied) : Same(x)})
        p == FirstIndex(_auth_pending, {x \in Range(_auth_pending) : Same(x)})
    IN  IF d # 0
        THEN [denied |-> [_auth_denied EXCEPT ![d].retries = @ + 1],
              pending |-> _auth_pending]
        ELSE IF p # 0
        THEN [denied |-> _auth_denied,
              pending |-> [_auth_pending EXCEPT ![p].retries = @ + 1]]
        ELSE [denied |-> _auth_denied,
              pending |-> Append(_auth_pending,
                                 QueueRecord(Lit(domain), Lit(address), mechanism,
                                             Lit(credential), user_id, 1))]

(***************************************************************************)
(* AuthService._update_auth_lists                                          *)
(***************************************************************************)
HasAddress(rec) == rec.address.kind # "none"

\* The approved (or denied) list built from the allow (or deny) entries.
_update_auth_lists(entries) ==
    SelectSeq([i \in 1..Len(entries) |->
                  QueueRecord(entries[i].domain, entries[i].address,
                              entries[i].mechanism, entries[i].credentials,
                              entries[i].user_id, 0)],
              HasAddress)

(***************************************************************************)
(* AuthFile (volttron/platform/auth/auth_file.py): the persisted store, a  *)
(* record [allow, deny] of entry lists.  An operation of the store either  *)
(* takes effect or raises AuthException and leaves the store as it was.    *)
(***************************************************************************)
Store(allow, deny) == [allow |-> allow, deny |-> deny]

\* AuthFile.add(entry, overwrite=False, is_allow)
auth_file_add(store, entry, is_allow, ok) ==
    IF ~ok THEN store
    ELSE IF is_allow THEN [store EXCEPT !.allow = Append(@, entry)]
    ELSE [store EXCEPT !.deny = Append(@, entry)]

\* AuthFile.remove_by_credentials(credential, is_allow)
auth_file_remove_by_credentials(store, credential, is_allow, ok) ==
    LET Other(entry) == entry.credentials # credential
    IN  IF ~ok THEN store
        ELSE IF is_allow THEN [store EXCEPT !.allow = SelectSeq(@, Other)]
        ELSE [store EXCEPT !.deny = SelectSeq(@, Other)]

\* AuthFile.approve_deny_credential(user_id, is_approved): the entries of
\* that user move to the allow list (or to the deny list).
auth_file_approve_deny_credential(store, user_id, is_approved, ok) ==
    LET Mine(entry) == entry.user_id = user_id
        Other(entry) == entry.user_id # user_id
    IN  IF ~ok THEN store
        ELSE IF is_approved
        THEN Store(store.allow \o SelectSeq(store.deny, Mine),
                   SelectSeq(store.deny, Other))
        ELSE Store(SelectSeq(store.allow, Other),
                   store.deny \o SelectSeq(store.allow, Mine))

(***************************************************************************)
(* AuthService._update_auth_entry and _remove_auth_entry: both catch the   *)
(* store's AuthException.                                                  *)
(***************************************************************************)
SetupComment == "Auth entry added in setup mode"

_update_auth_entry(store, domain, address, mechanism, credential, user_id, is_allow, ok) ==
    auth_file_add(store,
                  [AuthEntry(domain, address, mechanism, credential, user_id,
                             None, TRUE)
                     EXCEPT !.comments = SetupComment],
                  is_allow, ok)

_remove_auth_entry(store, credential, is_allow, ok) ==
    auth_file_remove_by_credentials(store, credential, is_allow, ok)

\* for pending in queue: if user_id == pending["user_id"]:
\*     self._remove_auth_entry(pending["credentials"], is_allow)
\* okCreds are the credentials whose removal the store accepts.
RECURSIVE RemoveEach(_, _, _, _, _)
RemoveEach(store, queue, user_id, is_allow, okCreds) ==
    IF queue = <<>> THEN store
    ELSE LET rec == Head(queue)
             next == IF rec.user_id = user_id
                     THEN _remove_auth_entry(store, rec.credentials, is_allow,
                                             rec.credentials \in okCreds)
                     ELSE store
         IN  RemoveEach(next, Tail(queue), user_id, is_allow, okCreds)

QueueCredentials(queue, user_id) ==
    {queue[i].credentials : i \in {k \in 1..Len(queue) : queue[k].user_id = user_id}}

HasUser(queue, user_id) == \E i \in 1..Len(queue) : queue[i].user_id = user_id

\* The first loop of approve / deny / delete: the first pending record of
\* the user is added to the store and removed from the queue.
PromoteFirst(store, pending, user_id, is_allow, ok) ==
    LET Mine(rec) == rec.user_id = user_id
        i == FirstIndex(pending, {x \in Range(pending) : Mine(x)})
    IN  IF i = 0 THEN [store |-> store, pending |-> pending]
        ELSE [store |-> _update_auth_entry(store, pending[i].domain,
                                           pending[i].address, pending[i].mechanism,
                                           pending[i].credentials,
                                           pending[i].user_id, is_allow, ok),
              pending |-> RemoveAt(pending, i)]

\* The second loop of delete: the next pending record of the user is removed.
DropFirst(pending, user_id) ==
    LET Mine(rec) == rec.user_id = user_id
        i == FirstIndex(pending, {x \in Range(pending) : Mine(x)})
    IN  IF i = 0 THEN pending ELSE RemoveAt(pending, i)

Last(op, attempt, result, outcome) ==
    [op |-> op, attempt |-> attempt, result |-> result, outcome |-> outcome]
NoLast == Last("none", NoAttempt, NoUser, "none")

\* Faulty variant of IsEnabled: the filter lets every entry through.
IsEnabledAny(entry) == TRUE

\* entry.enabled, the filter of read_auth_file
IsEnabled(entry) == entry.enabled

\* The entries of the store that approve, deny or delete have added.
Promoted ==
    Len(SelectSeq(auth_allow \o auth_deny,
                  LAMBDA entry : entry.comments = SetupComment))

\* AuthFile.auth_data: empty until the first load(), then the lists read.
AuthData(loaded, allow, deny) == [loaded |-> loaded, allow |-> allow, deny |-> deny]

\* No reload is running.
NoTask == [pc |-> "idle", outcome |-> "none", changed |-> FALSE]

\* The state after start-up: the store holds a policy, and it has been read.
Init ==
    /\ auth_allow \in StoreLists
    /\ auth_deny = <<>>
    /\ auth_entries = Sort(SelectSeq(auth_allow, IsEnabled))
    /\ _auth_pending = <<>>
    /\ _auth_approved = _update_auth_lists(auth_allow)
    /\ _auth_denied = <<>>
    /\ allow_any \in BOOLEAN
    /\ _is_connected = FALSE
    /\ store_faults = FALSE
    /\ auth_data = AuthData(TRUE, auth_allow, auth_deny)
    /\ task = NoTask
    /\ sent = <<>>
    /\ detached = <<>>
    /\ last = NoLast

\* The failures a queue has counted.
RECURSIVE Retries(_)
Retries(queue) ==
    IF queue = <<>> THEN 0 ELSE Head(queue).retries + Retries(Tail(queue))

\* The authentication entry point (the ZAP loop): authenticate, and record
\* the attempt as pending when it is unauthenticated.
HandleAuth(t, user_id) ==
    LET user == authenticate(t.domain, t.address, t.mechanism, t.credentials)
        q == _update_auth_pending(t.domain, t.address, t.mechanism,
                                  t.credentials[1], user_id)
    IN  /\ IF user.kind = "none"
           THEN /\ Retries(q.pending) + Retries(q.denied) <= MaxRetries
                /\ _auth_pending' = q.pending
                /\ _auth_denied' = q.denied
           ELSE UNCHANGED <<_auth_pending, _auth_denied>>
        /\ UNCHANGED <<auth_allow, auth_deny, auth_entries, _auth_approved,
                       config, pipeline>>

\* AuthService.read_auth_file while the service is not attached to the bus.
read_auth_file ==
    /\ ~_is_connected
    /\ _auth_approved' = _update_auth_lists(auth_allow)
    /\ _auth_denied' = _update_auth_lists(auth_deny)
    /\ auth_entries' = Sort(SelectSeq(auth_allow, IsEnabled))
    /\ UNCHANGED <<auth_allow, auth_deny, _auth_pending, config, pipeline>>

\* The outcomes of a store operation (TRUE: it takes effect): it can fail
\* only when it is called, on a store that may raise.
Outcomes(called) == IF called /\ store_faults THEN BOOLEAN ELSE {TRUE}

\* The removals the store accepts, among those asked for.
Accepted(asked) == IF store_faults THEN SUBSET asked ELSE {asked}

\* approve_authorization_failure(user_id) when the store's add ends as ok
\* and its approve_deny_credential as flip_ok.
approve_with(user_id, ok, flip_ok) ==
        LET p == PromoteFirst(Store(auth_allow, auth_deny), _auth_pending,
                              user_id, TRUE, ok)
            store == IF HasUser(_auth_denied, user_id)
                     THEN auth_file_approve_deny_credential(p.store, user_id,
                                                            TRUE, flip_ok)
                     ELSE p.store
        IN  /\ HasUser(_auth_pending, user_id) => Promoted < MaxPromoted
            /\ auth_allow' = store.allow
            /\ auth_deny' = store.deny
            /\ _auth_pending' = p.pending
            /\ UNCHANGED <<auth_entries, _auth_approved, _auth_denied, config, pipeline>>

\* AuthService.approve_authorization_failure(user_id)
approve_authorization_failure(user_id) ==
    \E ok \in Outcomes(HasUser(_auth_pending, user_id)),
       flip_ok \in Outcomes(HasUser(_auth_denied, user_id)) :
        approve_with(user_id, ok, flip_ok)

\* deny_authorization_failure(user_id) when the store's add ends as ok and
\* its approve_deny_credential as flip_ok.
deny_with(user_id, ok, flip_ok) ==
        LET p == PromoteFirst(Store(auth_allow, auth_deny), _auth_pending,
                              user_id, FALSE, ok)
            store == IF HasUser(_auth_approved, user_id)
                     THEN auth_file_approve_deny_credential(p.store, user_id,
                                                            FALSE, flip_ok)
                     ELSE p.store
        IN  /\ HasUser(_auth_pending, user_id) => Promoted < MaxPromoted
            /\ auth_allow' = store.allow
            /\ auth_deny' = store.deny
            /\ _auth_pending' = p.pending
            /\ UNCHANGED <<auth_entries, _auth_approved, _auth_denied, config, pipeline>>

\* AuthService.deny_authorization_failure(user_id)
deny_authorization_failure(user_id) ==
    \E ok \in Outcomes(HasUser(_auth_pending, user_id)),
       flip_ok \in Outcomes(HasUser(_auth_approved, user_id)) :
        deny_with(user_id, ok, flip_ok)

\* delete_authorization_failure(user_id) when the store's add ends as ok
\* and it accepts the removals of okAllow and okDeny.
delete_with(user_id, ok, okAllow, okDeny) ==
        LET p == PromoteFirst(Store(auth_allow, auth_deny), _auth_pending,
                              user_id, TRUE, ok)
            store1 == RemoveEach(p.store, _auth_approved, user_id, TRUE, okAllow)
            store2 == RemoveEach(store1, _auth_denied, user_id, FALSE, okDeny)
        IN  /\ HasUser(_auth_pending, user_id) => Promoted < MaxPromoted
            /\ auth_allow' = store2.allow
            /\ auth_deny' = store2.deny
            /\ _auth_pending' = DropFirst(p.pending, user_id)
            /\ UNCHANGED <<auth_entries, _auth_approved, _auth_denied, config, pipeline>>

\* AuthService.delete_authorization_failure(user_id)
delete_authorization_failure(user_id) ==
    \E ok \in Outcomes(HasUser(_auth_pending, user_id)),
       okAllow \in Accepted(QueueCredentials(_auth_approved, user_id)),
       okDeny \in Accepted(QueueCredentials(_auth_denied, user_id)) :
        delete_with(user_id, ok, okAllow, okDeny)

(***************************************************************************)
(* Spec: the pending queue and its operator actions, with reloads.         *)
(***************************************************************************)
Next ==
    \/ \E t \in Attempts, u \in UserIds : HandleAuth(t, u) /\ UNCHANGED last
    \/ read_auth_file /\ UNCHANGED last
    \/ \E u \in UserIds : approve_authorization_failure(u) /\ UNCHANGED last
    \/ \E u \in UserIds : deny_authorization_failure(u) /\ UNCHANGED last
    \/ \E u \in UserIds : delete_authorization_failure(u) /\ UNCHANGED last

Spec == Init /\ [][Next]_vars

(***************************************************************************)
(* SpecAuth: the matcher observed.  Each authentication leaves its input   *)
(* and its result in `last`; a reload clears it.                           *)
(***************************************************************************)
Authenticate(t, user_id) ==
    /\ HandleAuth(t, user_id)
    /\ last' = Last("auth", t,
                    authenticate(t.domain, t.address, t.mechanism, t.credentials),
                    "ok")

Reload == read_auth_file /\ last' = NoLast

NextAuth ==
    \/ \E t \in Attempts, u \in UserIds : Authenticate(t, u)
    \/ Reload

SpecAuth == Init /\ [][NextAuth]_vars

(***************************************************************************)
(* SpecApproveDelete: an approval directly followed by a deletion of the   *)
(* same user, with or without a reload in between.  `last` holds the       *)
(* stage, the approved record's tuple and the user.                        *)
(***************************************************************************)
\* The tuple a pending record was made from.
RecordAttempt(rec) ==
    [domain |-> CHOOSE v \in rec.domain.lang : TRUE,
     address |-> CHOOSE v \in rec.address.lang : TRUE,
     mechanism |-> rec.mechanism,
     credentials |-> <<CHOOSE v \in rec.credentials.lang : TRUE>>]

FirstOf(queue, user_id) ==
    queue[FirstIndex(queue, {rec \in Range(queue) : rec.user_id = user_id})]

ArriveAD(t, user_id) ==
    /\ last.op = "none"
    /\ HandleAuth(t, user_id)
    /\ UNCHANGED last

ApproveAD(user_id) ==
    /\ last.op = "none"
    /\ HasUser(_auth_pending, user_id)
    /\ approve_authorization_failure(user_id)
    /\ last' = Last("approve", RecordAttempt(FirstOf(_auth_pending, user_id)),
                    UserId(user_id), "ok")

ReloadAD ==
    /\ last.op = "approve"
    /\ read_auth_file
    /\ UNCHANGED last

DeleteAD ==
    /\ last.op = "approve"
    /\ delete_authorization_failure(last.result.id)
    /\ last' = [last EXCEPT !.op = "approve_delete"]

NextApproveDelete ==
    \/ \E t \in Attempts, u \in UserIds : ArriveAD(t, u)
    \/ \E u \in UserIds : ApproveAD(u)
    \/ ReloadAD
    \/ DeleteAD

SpecApproveDelete == Init /\ [][NextApproveDelete]_vars

(***************************************************************************)
(* The per-method authorization API: add_rpc_authorizations and            *)
(* delete_rpc_authorizations.                                              *)
(***************************************************************************)
\* known_identities.PROCESS_IDENTITIES and CONTROL_CONNECTION
PROCESS_IDENTITIES == {"platform.auth", "platform.control"}
CONTROL_CONNECTION == "control.connection"

\* d[k] = v on a dict
SetKey(d, k, v) == [x \in DOMAIN d \cup {k} |-> IF x = k THEN v ELSE d[x]]

\* AuthFile.update_by_index(entry, index)
auth_file_update_by_index(allow, entry, index, ok) ==
    IF ok THEN [allow EXCEPT ![index] = entry] ELSE allow

\* The result of a call of the API: the allow list and how the call ended
\* ("ok", "rejected": an error is logged and nothing is written, "raised").
RpcResult(allow, outcome) == [allow |-> allow, outcome |-> outcome]

\* Faulty variant of IsPrivileged: the control connection is not guarded.
IsPrivilegedProcessOnly(identity) == identity \in PROCESS_IDENTITIES

\* identity in PROCESS_IDENTITIES or identity == CONTROL_CONNECTION
IsPrivileged(identity) ==
    identity \in PROCESS_IDENTITIES \/ identity = CONTROL_CONNECTION

EntryOf(allow, identity) ==
    FirstIndex(allow, {entry \in Range(allow) : entry.identity = identity})

\* The list add_rpc_authorizations leaves for the method.
AddedList(rpc, method, authorizations) ==
    IF method \notin DOMAIN rpc THEN authorizations
    ELSE IF rpc[method] = <<>> THEN authorizations
    ELSE rpc[method] \o
         SelectSeq(authorizations,
                   LAMBDA rpc_auth : /\ rpc_auth \in Range(authorizations)
                                     /\ rpc_auth \notin Range(rpc[method]))

\* AuthService.add_rpc_authorizations(identity, method, authorizations)
add_rpc_authorizations(allow, identity, method, authorizations, ok) ==
    LET i == EntryOf(allow, identity)
    IN  IF IsPrivileged(identity) THEN RpcResult(allow, "rejected")
        ELSE IF i = 0 THEN RpcResult(allow, "rejected")
        ELSE RpcResult(
                auth_file_update_by_index(
                    allow,
                    [allow[i] EXCEPT !.rpc_method_authorizations =
                        SetKey(@, method, AddedList(@, method, authorizations))],
                    i, ok),
                IF ok THEN "ok" ELSE "raised")

\* Faulty variant of RemovedList: an emptied list is left empty.
RemovedListNoSentinel(list, denied_authorizations) ==
    SelectSeq(list, LAMBDA rpc_auth : rpc_auth \notin Range(denied_authorizations))

\* The list delete_rpc_authorizations leaves when a capability matched.
RemovedList(list, denied_authorizations) ==
    LET kept == SelectSeq(list, LAMBDA rpc_auth :
                                    rpc_auth \notin Range(denied_authorizations))
    IN  IF kept = <<>> THEN <<"">> ELSE kept

\* AuthService.delete_rpc_authorizations(identity, method, denied_authorizations)
delete_rpc_authorizations(allow, identity, method, denied_authorizations, ok) ==
    LET i == EntryOf(allow, identity)
        rpc == allow[i].rpc_method_authorizations
        any_match == \E k \in 1..Len(denied_authorizations) :
                        denied_authorizations[k] \in Range(rpc[method])
    IN  IF IsPrivileged(identity) THEN RpcResult(allow, "rejected")
        ELSE IF i = 0 THEN RpcResult(allow, "rejected")
        ELSE IF method \notin DOMAIN rpc THEN RpcResult(allow, "rejected")
        ELSE IF rpc[method] = <<>> THEN RpcResult(allow, "rejected")
        ELSE IF ~any_match THEN RpcResult(allow, "rejected")
        ELSE RpcResult(
                auth_file_update_by_index(
                    allow,
                    [allow[i] EXCEPT !.rpc_method_authorizations =
                        SetKey(@, method,
                               RemovedList(@[method], denied_authorizations))],
                    i, ok),
                IF ok THEN "ok" ELSE "raised")

(***************************************************************************)
(* SpecRpc: the per-method authorization API on a store that holds an      *)
(* agent, a process identity and the control connection.  `last` holds the *)
(* call, its arguments and how it ended.                                   *)
(***************************************************************************)
MaxArgs == 2
Capabilities == {"a", "b"}
Methods == {"m1"}
Identities == {"agent1", "ghost", "platform.auth", CONTROL_CONNECTION}

\* The capability lists a caller may pass, duplicates included.
ArgLists == UNION {[1..n -> Capabilities] : n \in 0..MaxArgs}

AgentEntry(identity, rpc) ==
    [AuthEntry(Lit("vip"), NoField, "CURVE", Lit(identity), identity, identity, TRUE)
        EXCEPT !.rpc_method_authorizations = rpc]

Rpc1(list) == [m \in {"m1"} |-> list]
Rpc2(list) == [m \in {"m1", "m2"} |-> IF m = "m1" THEN list ELSE <<"b">>]

AgentRpcs ==
    {NoRpc, Rpc1(<<>>), Rpc1(<<"a">>), Rpc2(<<"a", "b">>)}

LastRpc(op, identity, method, capabilities, outcome) ==
    [op |-> op, identity |-> identity, method |-> method,
     capabilities |-> capabilities, outcome |-> outcome]

InitRpc ==
    /\ \E rpc \in AgentRpcs :
          auth_allow = << AgentEntry("agent1", rpc),
                          AgentEntry("platform.auth", Rpc1(<<"a">>)),
                          AgentEntry(CONTROL_CONNECTION, Rpc1(<<"a">>)) >>
    /\ auth_deny = <<>>
    /\ auth_entries = Sort(SelectSeq(auth_allow, IsEnabled))
    /\ _auth_pending = <<>>
    /\ _auth_approved = _update_auth_lists(auth_allow)
    /\ _auth_denied = <<>>
    /\ allow_any = FALSE
    /\ _is_connected = FALSE
    /\ store_faults = FALSE
    /\ auth_data = AuthData(TRUE, auth_allow, auth_deny)
    /\ task = NoTask
    /\ sent = <<>>
    /\ detached = <<>>
    /\ last = LastRpc("none", None, None, <<>>, "none")

AddRpc(identity, method, authorizations) ==
    \E ok \in Outcomes(TRUE) :
        LET r == add_rpc_authorizations(auth_allow, identity, method,
                                        authorizations, ok)
        IN  /\ auth_allow' = r.allow
            /\ last' = LastRpc("add_rpc", identity, method, authorizations,
                               r.outcome)
            /\ UNCHANGED <<auth_deny, auth_entries, _auth_pending,
                           _auth_approved, _auth_denied, config, pipeline>>

DeleteRpc(identity, method, denied_authorizations) ==
    \E ok \in Outcomes(TRUE) :
        LET r == delete_rpc_authorizations(auth_allow, identity, method,
                                           denied_authorizations, ok)
        IN  /\ auth_allow' = r.allow
            /\ last' = LastRpc("delete_rpc", identity, method,
                               denied_authorizations, r.outcome)
            /\ UNCHANGED <<auth_deny, auth_entries, _auth_pending,
                           _auth_approved, _auth_denied, config, pipeline>>

NextRpc ==
    \/ \E id \in Identities, m \in Methods, caps \in ArgLists : AddRpc(id, m, caps)
    \/ \E id \in Identities, m \in Methods, caps \in ArgLists : DeleteRpc(id, m, caps)

SpecRpc == InitRpc /\ [][NextRpc]_vars

(***************************************************************************)
(* AuthService.update_id_rpc_authorizations: an agent reports its exported *)
(* methods on start-up.                                                    *)
(***************************************************************************)
\* Faulty variant of MergedList: the reported list always wins.
MergedListReported(rpc, method, rpc_methods) == rpc_methods[method]

\* entry.rpc_method_authorizations[method] after the two assignments.
MergedList(rpc, method, rpc_methods) ==
    LET created == IF method \notin DOMAIN rpc THEN rpc_methods[method]
                   ELSE rpc[method]
    IN  IF created = <<>> THEN rpc_methods[method] ELSE created

\* is_updated after the loop over the reported methods.
IsUpdated(rpc, rpc_methods) ==
    \E method \in DOMAIN rpc_methods :
        \/ method \notin DOMAIN rpc
        \/ rpc[method] = <<>>

\* The entry's method authorizations after the loop.
MergedRpc(rpc, rpc_methods) ==
    [method \in DOMAIN rpc \cup DOMAIN rpc_methods |->
        IF method \in DOMAIN rpc_methods
        THEN MergedList(rpc, method, rpc_methods)
        ELSE rpc[method]]

\* updated_rpc_methods after the loop.
UpdatedRpcMethods(rpc, rpc_methods) ==
    [method \in DOMAIN rpc_methods |->
        IF MergedList(rpc, method, rpc_methods) # rpc_methods[method]
        THEN MergedList(rpc, method, rpc_methods)
        ELSE rpc_methods[method]]

\* What update_id_rpc_authorizations returns: a mapping, or None.
Returned(updated_rpc_methods) == [kind |-> "dict", dict |-> updated_rpc_methods]
ReturnedNone == [kind |-> "None", dict |-> NoRpc]

\* AuthService.update_id_rpc_authorizations(identity, rpc_methods): the allow
\* list it leaves and the mapping it returns (None: no entry).
update_id_rpc_authorizations(allow, identity, rpc_methods, ok) ==
    LET i == EntryOf(allow, identity)
        rpc == allow[i].rpc_method_authorizations
    IN  IF i = 0
        THEN [allow |-> allow, result |-> ReturnedNone]
        ELSE [allow |-> IF IsUpdated(rpc, rpc_methods)
                        THEN auth_file_update_by_index(
                                allow,
                                [allow[i] EXCEPT !.rpc_method_authorizations =
                                    MergedRpc(rpc, rpc_methods)],
                                i, ok)
                        ELSE allow,
              result |-> Returned(UpdatedRpcMethods(rpc, rpc_methods))]

(***************************************************************************)
(* SpecReport: agents, known or not, report their methods.  `last` holds   *)
(* the report and the mapping returned.                                    *)
(***************************************************************************)
ReportedMethods == {"m1", "m2"}
ReportedLists == {<<>>, <<"b">>}
Reporters == {"agent1", "ghost", "platform.auth", CONTROL_CONNECTION}

\* The mappings {method: [capability, ...]} an agent may report.
Reports ==
    UNION {[methods -> ReportedLists] : methods \in SUBSET ReportedMethods}

LastReport(identity, rpc_methods, result) ==
    [op |-> "update_id_rpc", identity |-> identity, reported |-> rpc_methods,
     returned |-> result]

UpdateIdRpc(identity, rpc_methods) ==
    \E ok \in Outcomes(TRUE) :
        LET r == update_id_rpc_authorizations(auth_allow, identity,
                                              rpc_methods, ok)
        IN  /\ auth_allow' = r.allow
            /\ last' = LastReport(identity, rpc_methods, r.result)
            /\ UNCHANGED <<auth_deny, auth_entries, _auth_pending,
                           _auth_approved, _auth_denied, config, pipeline>>

NextReport ==
    \E identity \in Reporters, rpc_methods \in Reports :
        UpdateIdRpc(identity, rpc_methods)

SpecReport == InitRpc /\ [][NextReport]_vars

(***************************************************************************)
(* SpecCerts: approve, deny and delete on a platform with a certificate    *)
(* subsystem (self._certs is set).  `last` holds the operation, how the    *)
(* certificate call ended and how the operation ended.                     *)
(***************************************************************************)
\* How self._certs.approve_csr / deny_csr / delete_csr end.
CertsOutcomes == {"ok", "ValueError"}

\* Faulty variant of Caught: the handler catches nothing.
CaughtNothing(err) == FALSE

\* except ValueError as err: val_err = err
Caught(err) == err = "ValueError"

LastCerts(op, user_id, certs, outcome) ==
    [op |-> op, user_id |-> user_id, certs |-> certs, outcome |-> outcome]

\* The certificate call of an operation, then the operation itself unless
\* the call's error escapes.
AfterCerts(op, user_id, err, Rest) ==
    IF err = "ok" \/ Caught(err)
    THEN /\ Rest
         /\ last' = LastCerts(op, user_id, err, "returned")
    ELSE /\ last' = LastCerts(op, user_id, err, "raised")
         /\ UNCHANGED <<auth_allow, auth_deny, auth_entries, _auth_pending,
                        _auth_approved, _auth_denied, config, pipeline>>

ArriveCerts(t, user_id) ==
    /\ last.op = "none"
    /\ HandleAuth(t, user_id)
    /\ UNCHANGED last

ApproveCerts(user_id, err) ==
    AfterCerts("approve", user_id, err, approve_authorization_failure(user_id))

DenyCerts(user_id, err) ==
    AfterCerts("deny", user_id, err, deny_authorization_failure(user_id))

DeleteCerts(user_id, err) ==
    AfterCerts("delete", user_id, err, delete_authorization_failure(user_id))

NextCerts ==
    \/ \E t \in Attempts, u \in UserIds : ArriveCerts(t, u)
    \/ \E u \in UserIds, err \in CertsOutcomes : ApproveCerts(u, err)
    \/ \E u \in UserIds, err \in CertsOutcomes : DenyCerts(u, err)
    \/ \E u \in UserIds, err \in CertsOutcomes : DeleteCerts(u, err)

SpecCerts == Init /\ [][NextCerts]_vars

(***************************************************************************)
(* The reload of an attached service: read_auth_file, _send_update and     *)
(* update_rpc_authorizations, one action per stretch of code between two   *)
(* points where the greenlet waits (a file read, the settle delay, a peer  *)
(* list query, the answer to a bulk push).                                 *)
(***************************************************************************)
\* self.core.identity of the service
OwnIdentity == "platform.auth"

\* What vip.peerlist().get(timeout=0.5) answers, and what the subsystem's
\* cached peers_list holds when the query failed.
LivePeerLists ==
    { <<>>,
      <<"platform.auth", CONTROL_CONNECTION, "sensor1">>,
      <<"sensor1", "agent2">> }
CachedPeerLists == { <<>>, <<"platform.auth", "agent2">> }
PeerAnswers ==
    [ok : {TRUE}, peers : LivePeerLists] \cup [ok : {FALSE}, peers : CachedPeerLists]

\* How a call ends: it returns, the wait expires (gevent.Timeout) or the
\* peer rejects it (RemoteError).
RpcAnswers == {"ok", "timeout", "rejected"}

\* How the wait for a bulk push ends: as any call, or the peer cannot be
\* reached (Unreachable).
BulkAnswers == RpcAnswers \cup {"unreachable"}

\* One outbound call or frame, and how it ended ("none": not waited for);
\* the payload of a peer list query is the list the service went on with.
Call(to, method, payload, answer) ==
    [to |-> to, method |-> method, payload |-> payload, answer |-> answer]

\* The methods of a dict in the order the loop visits them.
MethodOrder == <<"get_point", "set_point">>
MethodsOf(rpc) == SelectSeq(MethodOrder, LAMBDA method : method \in DOMAIN rpc)

\* AuthService.get_user_to_capabilities()
get_user_to_capabilities ==
    [user_id \in {auth_entries[i].user_id : i \in 1..Len(auth_entries)} |->
        LET at == {i \in 1..Len(auth_entries) : auth_entries[i].user_id = user_id}
        IN  auth_entries[CHOOSE i \in at : \A j \in at : j <= i].capabilities]

\* Faulty variant of Snapshot: the entries read are added to the installed list.
SnapshotExtended(installed, entries) ==
    installed \o Sort(SelectSeq(entries, IsEnabled))

\* Faulty variant of Snapshot: the installed list is kept.
SnapshotKept(installed, entries) == installed

\* The list read_auth_file installs in place of the installed one.
Snapshot(installed, entries) == Sort(SelectSeq(entries, IsEnabled))

RECURSIVE Flatten(_)
Flatten(lists) ==
    IF lists = <<>> THEN <<>> ELSE Head(lists) \o Flatten(Tail(lists))

\* AuthService._get_updated_entries(old_entries, new_entries)
_get_updated_entries(old_entries, new_entries) ==
    LET Differs(entry) ==
            SelectSeq(old_entries,
                      LAMBDA old_entry :
                          /\ entry.identity = old_entry.identity
                          /\ entry.rpc_method_authorizations
                                # old_entry.rpc_method_authorizations)
        Modified(entry) ==
            IF entry.identity # None /\ ~IsPrivileged(entry.identity)
            THEN [n \in 1..Len(Differs(entry)) |-> entry]
                 \o (IF entry.identity \notin
                           {old_entries[n].identity : n \in 1..Len(old_entries)}
                     THEN <<entry>> ELSE <<>>)
            ELSE <<>>
    IN  Flatten([n \in 1..Len(new_entries) |-> Modified(new_entries[n])])

\* Faulty variant of KeepAsking: a fourth query is made.
KeepAskingFour(peers, i) == peers = <<>> /\ i < 4

\* while not peers and i < 3
KeepAsking(peers, i) == peers = <<>> /\ i < 3

\* Faulty variant of Recipients: only the service itself is left out.
RecipientsButSelf(peers) ==
    SelectSeq(peers, LAMBDA peer : peer # OwnIdentity)

\* for peer in peers: if peer not in [self.core.identity, CONTROL_CONNECTION]
Recipients(peers) ==
    SelectSeq(peers, LAMBDA peer : peer \notin {OwnIdentity, CONTROL_CONNECTION})

\* Whether a one-way call reaches its peer; the service is not told.
DeliveryAnswers == {"ok", "failed"}
PeerNames == {"platform.auth", CONTROL_CONNECTION, "sensor1", "agent2"}

\* The auth.update calls of a broadcast.
Deliveries(peers, user_to_caps, delivered) ==
    [n \in 1..Len(Recipients(peers)) |->
        Call(Recipients(peers)[n], "auth.update", user_to_caps,
             delivered[Recipients(peers)[n]])]

\* _send_auth_update_to_pubsub()
PubsubFrame == <<Call("pubsub", "auth_update", get_user_to_capabilities, "none")>>

\* Faulty variant of modified_methods: methods without capabilities are kept.
modified_methods_all(rpc) == rpc

\* update_rpc_authorizations: modified_methods of an entry
modified_methods(rpc) ==
    [method \in {m \in DOMAIN rpc : rpc[m] # <<>>} |-> rpc[method]]

\* Faulty variant of FallbackCalls: the first call that fails ends the loop.
FallbackCallsUntilFailure(identity, methods, answers) ==
    LET ms == MethodsOf(methods)
        failed == {n \in 1..Len(ms) : answers[ms[n]] # "ok"}
        stop == IF failed = {} THEN Len(ms)
                ELSE CHOOSE n \in failed : \A o \in failed : n <= o
    IN  [n \in 1..stop |->
            Call(identity, "auth.set_rpc_authorizations",
                 [m \in {ms[n]} |-> methods[m]], answers[ms[n]])]

\* update_rpc_authorizations: one auth.set_rpc_authorizations per method of
\* the batch; a timeout or a remote error is logged and the loop goes on.
FallbackCalls(identity, methods, answers) ==
    LET ms == MethodsOf(methods)
    IN  [n \in 1..Len(ms) |->
            Call(identity, "auth.set_rpc_authorizations",
                 [m \in {ms[n]} |-> methods[m]], answers[ms[n]])]

\* Faulty variant of method_error: a timeout leaves the flag set.
method_error_kept(bulk) == bulk # "ok"

\* update_rpc_authorizations: method_error after the try around the bulk
\* push (cleared on return and on gevent.Timeout, set on RemoteError)
method_error(bulk) == bulk = "rejected"

\* update_rpc_authorizations, the body of the loop for one entry: the calls
\* made when the bulk push ends as `bulk` and the single calls as `answers`.
update_rpc_authorizations(entry, bulk, answers) ==
    IF entry.identity # None /\ ~IsPrivileged(entry.identity)
    THEN LET methods == modified_methods(entry.rpc_method_authorizations)
         IN  IF DOMAIN methods # {}
             THEN <<Call(entry.identity, "auth.set_multiple_rpc_authorizations",
                         methods, bulk)>>
                  \o (IF method_error(bulk)
                      THEN FallbackCalls(entry.identity, methods, answers)
                      ELSE <<>>)
             ELSE <<>>
    ELSE <<>>

\* The positions of a running reload, with the locals that are live there.
\* owed is no local of the code: it remembers the identities whose bulk push
\* timed out in the run before this one.
Loading(had_data, old_entries, count, owed) ==
    [pc |-> "load", outcome |-> "none", had_data |-> had_data,
     old_entries |-> old_entries, count |-> count, owed |-> owed]
Settling(entries, modified_entries, unbound, changed) ==
    [pc |-> "settle", outcome |-> "none", entries |-> entries,
     modified_entries |-> modified_entries, unbound |-> unbound,
     changed |-> changed]
Asking(entries, modified_entries, changed, user_to_caps, i, peers) ==
    [pc |-> "peerlist", outcome |-> "none", entries |-> entries,
     modified_entries |-> modified_entries, changed |-> changed,
     user_to_caps |-> user_to_caps, i |-> i, peers |-> peers]
Reconciling(modified_entries, changed, k) ==
    [pc |-> "reconcile", outcome |-> "none",
     modified_entries |-> modified_entries, changed |-> changed, k |-> k]
\* read_auth_file has returned ("ok") or raised ("raised"); changed: the
\* snapshot it installed differs from the one it found.
Finished(outcome, changed) ==
    [pc |-> "idle", outcome |-> outcome, changed |-> changed]

\* The identities whose bulk push is among the calls and timed out.
TimedOut(calls) ==
    {calls[n].to : n \in {i \in 1..Len(calls) :
        /\ calls[i].method = "auth.set_multiple_rpc_authorizations"
        /\ calls[i].answer = "timeout"}}

\* read_auth_file up to the first auth_file.load()
ReloadStart ==
    /\ task.pc = "idle"
    /\ task' = Loading(auth_data.loaded,
                       IF auth_data.loaded THEN auth_data.allow ELSE <<>>, 0,
                       TimedOut(sent))
    /\ sent' = <<>>
    /\ last' = NoLast
    /\ UNCHANGED <<auth_allow, auth_deny, auth_entries, _auth_pending,
                   _auth_approved, _auth_denied, config, auth_data, detached>>

\* Faulty variant of ReadAgain: a fourth retry is made.
ReadAgainFour(had_data, entries, count) ==
    had_data /\ entries = <<>> /\ count < 4

\* if self.auth_file.auth_data: ... while not entries and count < 3
ReadAgain(had_data, entries, count) ==
    had_data /\ entries = <<>> /\ count < 3

\* auth_file.load() returns: another load while nothing was read, else the
\* diff, the caches and the install of the snapshot.
ReloadLoad ==
    /\ task.pc = "load"
    /\ auth_data' = AuthData(TRUE, auth_allow, auth_deny)
    /\ IF ReadAgain(task.had_data, auth_allow, task.count)
       THEN /\ task' = Loading(task.had_data, task.old_entries, task.count + 1,
                               task.owed)
            /\ UNCHANGED <<auth_entries, _auth_approved, _auth_denied>>
       ELSE /\ _auth_approved' = _update_auth_lists(auth_allow)
            /\ _auth_denied' = _update_auth_lists(auth_deny)
            /\ auth_entries' = Snapshot(auth_entries, auth_allow)
            /\ task' =
                IF _is_connected
                THEN Settling(auth_allow,
                              IF task.had_data
                              THEN _get_updated_entries(task.old_entries, auth_allow)
                              ELSE <<>>,
                              ~task.had_data,
                              auth_entries' # auth_entries)
                ELSE Finished("ok", auth_entries' # auth_entries)
    /\ UNCHANGED <<auth_allow, auth_deny, _auth_pending, config, sent, detached,
                   last>>

\* gevent.sleep(2) returns: _send_update up to the first peer list query
ReloadSettle ==
    /\ task.pc = "settle"
    /\ task' = IF task.unbound
               THEN Finished("raised", task.changed)
               ELSE Asking(task.entries, task.modified_entries, task.changed,
                           get_user_to_capabilities, 0, <<>>)
    /\ UNCHANGED <<auth_allow, auth_deny, auth_entries, _auth_pending,
                   _auth_approved, _auth_denied, config, auth_data, sent,
                   detached, last>>

\* A peer list query returns or fails: the next query, or the fatal error,
\* or the deliveries and what follows them up to the next wait.
ReloadPeerlist(answer, delivered) ==
    /\ task.pc = "peerlist"
    /\ LET i == task.i + 1
           peers == answer.peers
           query == <<Call("router", "peerlist", peers,
                           IF answer.ok THEN "ok" ELSE "failed")>>
       IN  IF KeepAsking(peers, i)
           THEN /\ task' = Asking(task.entries, task.modified_entries,
                                  task.changed, task.user_to_caps, i, peers)
                /\ sent' = sent \o query
           ELSE IF peers = <<>>
           THEN /\ task' = Finished("raised", task.changed)
                /\ sent' = sent \o query
           ELSE IF task.modified_entries # <<>>
           THEN /\ task' = Reconciling(task.modified_entries, task.changed, 1)
                /\ sent' = sent \o query \o Deliveries(peers, task.user_to_caps, delivered)
           ELSE /\ task' = Finished("ok", task.changed)
                /\ sent' = sent \o query \o Deliveries(peers, task.user_to_caps, delivered)
                               \o PubsubFrame
    /\ UNCHANGED <<auth_allow, auth_deny, auth_entries, _auth_pending,
                   _auth_approved, _auth_denied, config, auth_data, detached,
                   last>>

\* The bulk push among the calls raised an exception that no except
\* clause of update_rpc_authorizations names: it ends the loop and the
\* greenlet that runs it.
Escaped(calls) == calls # <<>> /\ calls[1].answer = "unreachable"

\* wait(timeout=4) of a bulk push and join(timeout=15) of the greenlet
WaitTimeout == 4
JoinTimeout == 15

\* Faulty variant of Expires: no timeout ends a wait.
ExpiresNever(timeout) == FALSE

\* A wait or a join with a number of seconds as its timeout ends when they
\* have passed, one without only when it is answered.
Expires(timeout) == timeout \in Nat

\* update_rpc_authorizations for the next modified entry; after the last
\* one, or when the greenlet has ended, the join returns and _send_update
\* ends with the pubsub frame.
ReloadReconcile(bulk, answers) ==
    /\ task.pc = "reconcile"
    /\ bulk = "timeout" => Expires(WaitTimeout)
    /\ LET calls == update_rpc_authorizations(task.modified_entries[task.k],
                                              bulk, answers)
       IN  IF task.k < Len(task.modified_entries) /\ ~Escaped(calls)
           THEN /\ task' = Reconciling(task.modified_entries, task.changed,
                                       task.k + 1)
                /\ sent' = sent \o calls
           ELSE /\ task' = Finished("ok", task.changed)
                /\ sent' = sent \o calls \o PubsubFrame
    /\ UNCHANGED <<auth_allow, auth_deny, auth_entries, _auth_pending,
                   _auth_approved, _auth_denied, config, auth_data, detached,
                   last>>

(***************************************************************************)
(* SpecReload: an attached service whose auth file is edited from outside  *)
(* and reloaded, while connections are authenticated.                      *)
(***************************************************************************)
SensorEntry(rpc) == AgentEntry("sensor1", rpc)
PointRpc(get_point, set_point) ==
    [m \in {"get_point", "set_point"} |->
        IF m = "get_point" THEN get_point ELSE set_point]

\* The contents an edit may give the allow list of the auth file.
ReloadStores ==
    { <<>>,
      << SensorEntry(PointRpc(<<>>, <<>>)) >>,
      << SensorEntry(PointRpc(<<"operator">>, <<>>)),
         AgentEntry("platform.auth", PointRpc(<<"admin">>, <<>>)) >>,
      << AgentEntry("agent2", PointRpc(<<"operator">>, <<"admin">>)),
         SensorEntry(PointRpc(<<"operator">>, <<>>)) >>,
      << [SensorEntry(PointRpc(<<"admin">>, <<>>)) EXCEPT !.enabled = FALSE] >> }

ReloadAttempts == { Attempt(AddrOther, "CURVE", "sensor1") }

\* The service starts on a store it has loaded, or on one that held no
\* data when it was opened; it is attached to the bus or not yet.
InitReload ==
    /\ auth_allow \in ReloadStores
    /\ auth_deny = <<>>
    /\ auth_data \in {AuthData(TRUE, auth_allow, auth_deny),
                      AuthData(FALSE, <<>>, <<>>)}
    /\ auth_entries = Snapshot(<<>>, auth_data.allow)
    /\ _auth_pending = <<>>
    /\ _auth_approved = _update_auth_lists(auth_data.allow)
    /\ _auth_denied = <<>>
    /\ allow_any = FALSE
    /\ _is_connected \in BOOLEAN
    /\ store_faults = FALSE
    /\ task = NoTask
    /\ sent = <<>>
    /\ detached = <<>>
    /\ last = NoLast

\* The auth file is rewritten from outside the service.
EditStore(allow) ==
    /\ allow # auth_allow
    /\ auth_allow' = allow
    /\ UNCHANGED <<auth_deny, auth_entries, _auth_pending, _auth_approved,
                   _auth_denied, config, pipeline, last>>

\* A connection is authenticated while a reload may be under way.
AuthenticateDuring(t) ==
    /\ last' = Last("auth", t,
                    authenticate(t.domain, t.address, t.mechanism, t.credentials),
                    "ok")
    /\ UNCHANGED <<auth_allow, auth_deny, auth_entries, _auth_pending,
                   _auth_approved, _auth_denied, config, pipeline>>

NextReload ==
    \/ \E allow \in ReloadStores : EditStore(allow)
    \/ ReloadStart
    \/ ReloadLoad
    \/ ReloadSettle
    \/ \E answer \in PeerAnswers, delivered \in [PeerNames -> DeliveryAnswers] :
            ReloadPeerlist(answer, delivered)
    \/ \E bulk \in BulkAnswers,
          answers \in [{"get_point", "set_point"} -> RpcAnswers] :
            ReloadReconcile(bulk, answers)
    \/ \E t \in ReloadAttempts : AuthenticateDuring(t)

SpecReload == InitReload /\ [][NextReload]_vars

(***************************************************************************)
(* SpecDetach: reloads whose diff is long enough for the join on the       *)
(* reconciliation greenlet to time out, so that the greenlet goes on       *)
(* while the reload returns and later reloads, authentications and         *)
(* deletions of pending records run.                                       *)
(***************************************************************************)
\* The entry makes update_rpc_authorizations wait for a bulk push.
Pushes(entry) ==
    update_rpc_authorizations(
        entry, "ok", [m \in {"get_point", "set_point"} |-> "ok"]) # <<>>

\* The waits the greenlet has begun when it is at entry k of the diff.
Waits(entries, k) == Cardinality({n \in 1..k : Pushes(entries[n])})

\* join(timeout=15) returns while the greenlet is still waiting: waits of
\* up to WaitTimeout each have taken longer than JoinTimeout together.
\* _send_update ends with the pubsub frame; the greenlet goes on.  The
\* peers are this slow only while no greenlet of an earlier reload is
\* still running.
ReloadJoinTimeout ==
    /\ task.pc = "reconcile"
    /\ detached = <<>>
    /\ Expires(JoinTimeout)
    /\ Expires(WaitTimeout) =>
            WaitTimeout * Waits(task.modified_entries, task.k) > JoinTimeout
    /\ detached' = Append(detached, [modified_entries |-> task.modified_entries,
                                      k |-> task.k])
    /\ task' = Finished("ok", task.changed)
    /\ sent' = sent \o PubsubFrame
    /\ UNCHANGED <<auth_allow, auth_deny, auth_entries, _auth_pending,
                   _auth_approved, _auth_denied, config, auth_data, last>>

\* update_rpc_authorizations for the next modified entry in a greenlet that
\* is no longer joined; after the last entry the greenlet ends.
BackgroundReconcile(i, bulk, answers) ==
    /\ i \in 1..Len(detached)
    /\ bulk = "timeout" => Expires(WaitTimeout)
    /\ LET run == detached[i]
           calls == update_rpc_authorizations(run.modified_entries[run.k],
                                              bulk, answers)
       IN  /\ sent' = sent \o calls
           /\ detached' = IF run.k < Len(run.modified_entries) /\ ~Escaped(calls)
                          THEN [detached EXCEPT ![i].k = @ + 1]
                          ELSE RemoveAt(detached, i)
    /\ UNCHANGED <<auth_allow, auth_deny, auth_entries, _auth_pending,
                   _auth_approved, _auth_denied, config, auth_data, task, last>>

FourSensors ==
    [n \in 1..4 |->
        AgentEntry(<<"sensor1", "sensor2", "sensor3", "sensor4">>[n],
                   PointRpc(<<"operator">>, <<>>))]
DetachStores == { <<>>, FourSensors }
DetachAttempts == { Attempt(AddrOther, "CURVE", "key1") }

\* The router lists the peers; a peer answers a bulk push or never does.
DetachPeerAnswers == { [ok |-> TRUE, peers |-> <<"sensor1", "agent2">>] }
DetachAnswers == {"ok", "timeout"}
NoFallback == [m \in {"get_point", "set_point"} |-> "ok"]

\* The attached service has loaded an empty store.
InitDetach ==
    /\ auth_allow = <<>>
    /\ auth_deny = <<>>
    /\ auth_data = AuthData(TRUE, <<>>, <<>>)
    /\ auth_entries = <<>>
    /\ _auth_pending = <<>>
    /\ _auth_approved = <<>>
    /\ _auth_denied = <<>>
    /\ allow_any = FALSE
    /\ _is_connected = TRUE
    /\ store_faults = FALSE
    /\ task = NoTask
    /\ sent = <<>>
    /\ detached = <<>>
    /\ last = NoLast

\* The steps of a reload that a timer or the code alone brings about.
ReloadTimed ==
    \/ ReloadLoad
    \/ ReloadSettle
    \/ \E answer \in DetachPeerAnswers, delivered \in [PeerNames -> {"ok"}] :
            ReloadPeerlist(answer, delivered)
    \/ ReloadReconcile("timeout", NoFallback)

\* The steps of a detached greenlet that a timer brings about.
BackgroundTimed ==
    \E i \in 1..Len(detached) : BackgroundReconcile(i, "timeout", NoFallback)

NextDetach ==
    \/ \E allow \in DetachStores : EditStore(allow)
    \/ ReloadStart
    \/ ReloadTimed
    \/ \E bulk \in DetachAnswers : ReloadReconcile(bulk, NoFallback)
    \/ ReloadJoinTimeout
    \/ BackgroundTimed
    \/ \E i \in 1..Len(detached), bulk \in DetachAnswers :
            BackgroundReconcile(i, bulk, NoFallback)
    \/ \E t \in DetachAttempts, u \in {"u1"} : HandleAuth(t, u) /\ last' = NoLast
    \/ \E u \in {"u1"} : delete_authorization_failure(u) /\ last' = NoLast

SpecDetach == InitDetach /\ [][NextDetach]_vars

\* The scheduler resumes a greenlet whose timer has run out; no peer is
\* bound to answer.
SpecDetachFair ==
    /\ SpecDetach
    /\ WF_vars(ReloadTimed)
    /\ WF_vars(BackgroundTimed)

(***************************************************************************)
(* SpecOverlap: as SpecDetach, with a store edited again while the         *)
(* greenlet of the reload before goes on, and without the pending queue.   *)
(***************************************************************************)
\* FourSensors after sensor4's get_point was given to another capability.
FourSensorsEdited ==
    [FourSensors EXCEPT ![4] = AgentEntry("sensor4", PointRpc(<<"admin">>, <<>>))]
OverlapStores == { <<>>, FourSensors, FourSensorsEdited }

NextOverlap ==
    \/ \E allow \in OverlapStores : EditStore(allow)
    \/ ReloadStart
    \/ ReloadLoad
    \/ ReloadSettle
    \/ \E answer \in DetachPeerAnswers, delivered \in [PeerNames -> {"ok"}] :
            ReloadPeerlist(answer, delivered)
    \/ \E bulk \in DetachAnswers : ReloadReconcile(bulk, NoFallback)
    \/ ReloadJoinTimeout
    \/ \E i \in 1..Len(detached), bulk \in DetachAnswers :
            BackgroundReconcile(i, bulk, NoFallback)

SpecOverlap == InitDetach /\ [][NextOverlap]_vars

(***************************************************************************)
(* SpecCaps: the capabilities of a user as the broadcast map and as the    *)
(* per-user query give them.  `last` holds the user asked for, the answer  *)
(* of get_capabilities and the map of get_user_to_capabilities.            *)
(***************************************************************************)
\* dump_user("vip", AddrOther, "CURVE", "key1") as the string a user id is
DumpedKey1 == "[vip, localhost:9999:5:6, CURVE, key1]"

\* load_user(user_id): the parts of a dumped user, NoAttempt for a ValueError
load_user(user_id) ==
    IF user_id = DumpedKey1 THEN Attempt(AddrOther, "CURVE", "key1") ELSE NoAttempt

\* AuthService.get_authorizations(user_id); <<>> stands for the None that
\* is returned when the loop ends
get_authorizations(user_id) ==
    LET parts == load_user(user_id)
        use_parts == parts # NoAttempt
        Hit(entry) ==
            \/ entry.user_id = user_id
            \/ use_parts /\ Match(entry, parts.domain, parts.address,
                                   parts.mechanism, parts.credentials)
        i == FirstIndex(auth_entries, {x \in Range(auth_entries) : Hit(x)})
    IN  IF i # 0
        THEN <<auth_entries[i].capabilities, auth_entries[i].groups,
               auth_entries[i].roles>>
        ELSE <<>>

\* AuthService._get_authorizations(user_id, index)
_get_authorizations(user_id, index) ==
    LET auths == get_authorizations(user_id)
    IN  IF auths # <<>> THEN auths[index + 1] ELSE <<>>

\* AuthService.get_capabilities(user_id)
get_capabilities(user_id) == _get_authorizations(user_id, 0)

CapsEntry(credentials, user_id, capabilities, enabled) ==
    [AuthEntry(Lit("vip"), NoField, "CURVE", Lit(credentials), user_id, None, enabled)
        EXCEPT !.capabilities = capabilities]
CapsUserIds == {"u1", DumpedKey1}
CapsLists == { <<>>, <<"read">> }
CapsStores ==
    { <<a, b>> :
        a \in {CapsEntry("key1", u, c, TRUE) : u \in CapsUserIds, c \in CapsLists},
        b \in {CapsEntry("key2", u, c, e) :
                    u \in CapsUserIds, c \in CapsLists, e \in BOOLEAN} }

LastCaps(user_id, result, broadcast) ==
    [op |-> "get_capabilities", user_id |-> user_id, result |-> result,
     broadcast |-> broadcast]

\* The service has loaded the auth file; it is not attached.
InitCaps ==
    /\ auth_allow \in CapsStores
    /\ auth_deny = <<>>
    /\ auth_data = AuthData(TRUE, auth_allow, auth_deny)
    /\ auth_entries = Snapshot(<<>>, auth_allow)
    /\ _auth_pending = <<>>
    /\ _auth_approved = _update_auth_lists(auth_allow)
    /\ _auth_denied = <<>>
    /\ allow_any = FALSE
    /\ _is_connected = FALSE
    /\ store_faults = FALSE
    /\ task = NoTask
    /\ sent = <<>>
    /\ detached = <<>>
    /\ last = NoLast

\* get_capabilities(user_id) is called, and get_user_to_capabilities() with it.
GetCapabilities(user_id) ==
    /\ last' = LastCaps(user_id, get_capabilities(user_id), get_user_to_capabilities)
    /\ UNCHANGED <<auth_allow, auth_deny, auth_entries, _auth_pending,
                   _auth_approved, _auth_denied, config, pipeline>>

NextCaps ==
    \/ \E allow \in CapsStores : EditStore(allow)
    \/ read_auth_file /\ last' = NoLast
    \/ \E user_id \in CapsUserIds : GetCapabilities(user_id)

SpecCaps == InitCaps /\ [][NextCaps]_vars

(***************************************************************************)
(* SpecFaults: the pending queue and its operator actions on a store whose *)
(* operations may raise.  `last` holds the operation, the pending record   *)
(* it found, which store calls failed and how the operation ended.         *)
(***************************************************************************)
NoRecord == [user_id |-> None]

FaultAttempts ==
    { Attempt(AddrOther, "NULL", "bob"), Attempt(AddrOther, "CURVE", "key1") }

\* The pending record the first loop of an operation finds for the user.
FoundPending(user_id) ==
    IF HasUser(_auth_pending, user_id)
    THEN FirstOf(_auth_pending, user_id) ELSE NoRecord

\* self.auth_file.approve_deny_credential(...) is called outside any try:
\* what it raises leaves the operation.
Escapes(queue, user_id, flip_ok) == HasUser(queue, user_id) /\ ~flip_ok

LastStore(op, user_id, record, add_ok, changes_ok, raised) ==
    [op |-> op, user_id |-> user_id, record |-> record, add_ok |-> add_ok,
     changes_ok |-> changes_ok,
     outcome |-> IF raised THEN "raised" ELSE "returned"]

InitFaults ==
    /\ auth_allow = <<>>
    /\ auth_deny = <<>>
    /\ auth_entries = <<>>
    /\ _auth_pending = <<>>
    /\ _auth_approved = <<>>
    /\ _auth_denied = <<>>
    /\ allow_any = FALSE
    /\ _is_connected = FALSE
    /\ store_faults = TRUE
    /\ auth_data = AuthData(TRUE, auth_allow, auth_deny)
    /\ task = NoTask
    /\ sent = <<>>
    /\ detached = <<>>
    /\ last = NoLast

ArriveFaults(t, user_id) ==
    /\ HandleAuth(t, user_id)
    /\ last' = NoLast

ReloadFaults ==
    /\ read_auth_file
    /\ last' = NoLast

ApproveFaults(user_id) ==
    \E ok \in Outcomes(HasUser(_auth_pending, user_id)),
       flip_ok \in Outcomes(HasUser(_auth_denied, user_id)) :
        /\ approve_with(user_id, ok, flip_ok)
        /\ last' = LastStore("approve", user_id, FoundPending(user_id), ok, flip_ok,
                             Escapes(_auth_denied, user_id, flip_ok))

DenyFaults(user_id) ==
    \E ok \in Outcomes(HasUser(_auth_pending, user_id)),
       flip_ok \in Outcomes(HasUser(_auth_approved, user_id)) :
        /\ deny_with(user_id, ok, flip_ok)
        /\ last' = LastStore("deny", user_id, FoundPending(user_id), ok, flip_ok,
                             Escapes(_auth_approved, user_id, flip_ok))

DeleteFaults(user_id) ==
    \E ok \in Outcomes(HasUser(_auth_pending, user_id)),
       okAllow \in Accepted(QueueCredentials(_auth_approved, user_id)),
       okDeny \in Accepted(QueueCredentials(_auth_denied, user_id)) :
        /\ delete_with(user_id, ok, okAllow, okDeny)
        /\ last' = LastStore("delete", user_id, FoundPending(user_id), ok,
                             /\ okAllow = QueueCredentials(_auth_approved, user_id)
                             /\ okDeny = QueueCredentials(_auth_denied, user_id),
                             FALSE)

NextFaults ==
    \/ \E t \in FaultAttempts, u \in UserIds : ArriveFaults(t, u)
    \/ ReloadFaults
    \/ \E u \in UserIds : ApproveFaults(u)
    \/ \E u \in UserIds : DenyFaults(u)
    \/ \E u \in UserIds : DeleteFaults(u)

SpecFaults == InitFaults /\ [][NextFaults]_vars

(***************************************************************************)
(*                              The claims                                 *)
(***************************************************************************)
\* The user an entry resolves a tuple to: its user_id, or the derived id.
Resolves(entry, t) ==
    IF entry.user_id # None THEN UserId(entry.user_id)
    ELSE dump_user(t.domain, t.address, t.mechanism, <<t.credentials[1]>>)

Matches(entry, t) == Match(entry, t.domain, t.address, t.mechanism, t.credentials)

\* The tuple equals the fields of an entry with literal credentials.
ExactLiteral(entry, t) ==
    /\ entry.credentials = Lit(t.credentials[1])
    /\ entry.address = Lit(t.address)
    /\ entry.mechanism = t.mechanism
    /\ entry.domain \in {NoField, Lit(t.domain)}

\* C1 as stated: authenticating a tuple that equals the fields of an enabled
\* literal-credential entry of the store resolves to that entry, whatever
\* other entries match the tuple and wherever they are in the store.
C1_LiteralAlwaysWins ==
    last.op = "auth" =>
        \A i \in 1..Len(auth_allow) :
            (auth_allow[i].enabled /\ ExactLiteral(auth_allow[i], last.attempt))
                => last.result = Resolves(auth_allow[i], last.attempt)

\* C1 (amended): authenticating a tuple that equals the fields of an enabled
\* literal-credential entry resolves to that entry, even if a
\* pattern-credential entry also matches and whatever their order in the
\* store, provided no other enabled literal-credential entry of the store
\* matches the tuple.
C1_LiteralBeforePattern ==
    last.op = "auth" =>
        \A i \in 1..Len(auth_allow) :
            ( /\ auth_allow[i].enabled
              /\ ExactLiteral(auth_allow[i], last.attempt)
              /\ \A j \in 1..Len(auth_allow) :
                    j # i => ~( /\ auth_allow[j].enabled
                                /\ IsLiteral(auth_allow[j])
                                /\ Matches(auth_allow[j], last.attempt) ) )
                => last.result = Resolves(auth_allow[i], last.attempt)

\* An authentication resolved to a literal entry that a matching pattern
\* entry precedes in the store.
C1_Witness ==
    /\ last.op = "auth"
    /\ \E i, j \in 1..Len(auth_allow) :
        /\ i < j
        /\ auth_allow[i].enabled /\ IsPattern(auth_allow[i])
        /\ Matches(auth_allow[i], last.attempt)
        /\ auth_allow[j].enabled /\ ExactLiteral(auth_allow[j], last.attempt)
        /\ last.result = Resolves(auth_allow[j], last.attempt)

EntryMatches(t) == \E i \in 1..Len(auth_entries) : Matches(auth_entries[i], t)

\* (a): mechanism NULL, a loopback address with an embedded process id that
\* the agent registry resolves.
AgentCase(t) ==
    /\ t.mechanism = "NULL"
    /\ t.address[1] = "localhost"
    /\ Len(t.address) >= 4
    /\ t.address[4] \in AgentPids

\* The address encodes the coordinator's own uid.
OwnUidAddress(t) ==
    t.address[1] = "localhost" /\ Len(t.address) >= 2 /\ t.address[2] = OwnUid

RawUser(t) == dump_user(t.domain, t.address, t.mechanism, <<t.credentials[1]>>)
AgentUser(t) ==
    dump_user(t.domain, t.address, "AGENT", <<agent_uuid_from_pid(t.address[4])>>)

\* The ordered chain, with own deciding (b).
FallbackChain(t, r, own) ==
    IF EntryMatches(t)
    THEN \E i \in 1..Len(auth_entries) :
            Matches(auth_entries[i], t) /\ r = Resolves(auth_entries[i], t)
    ELSE IF AgentCase(t) THEN r = AgentUser(t)
    ELSE IF own THEN r = RawUser(t)
    ELSE IF allow_any THEN r = RawUser(t)
    ELSE r = NoUser

\* C2 as stated: an entry match first, then (a) the agent of a NULL loopback
\* connection, then (b) any address that encodes the coordinator's own uid,
\* then (c) allow_any, else (d) unauthenticated.
C2_ChainAsStated ==
    last.op = "auth" => FallbackChain(last.attempt, last.result, OwnUidAddress(last.attempt))

OwnUidNull(t) == t.mechanism = "NULL" /\ OwnUidAddress(t)

\* C2 (amended): the same chain, where (b) applies only to mechanism NULL:
\* a loopback address that encodes the coordinator's own uid, presented with
\* mechanism NULL, yields the user id synthesized from the raw tuple.
C2_FallbackChain ==
    last.op = "auth" => FallbackChain(last.attempt, last.result, OwnUidNull(last.attempt))

\* An agent's connection from the coordinator's own uid, matched by no
\* entry, was resolved by (a), not by (b).
C2_Witness ==
    /\ last.op = "auth"
    /\ ~EntryMatches(last.attempt)
    /\ AgentCase(last.attempt) /\ OwnUidAddress(last.attempt)
    /\ last.result = AgentUser(last.attempt)

Unauthenticated(t) ==
    authenticate(t.domain, t.address, t.mechanism, t.credentials).kind = "none"

\* The attempt t has just been handled and ended unauthenticated.
Rejected(t) == Unauthenticated(t) /\ \E u \in UserIds : HandleAuth(t, u)

Holds(rec, t) ==
    SameTuple(rec, t.domain, t.address, t.mechanism, t.credentials[1])
InQueue(queue, t) == \E i \in 1..Len(queue) : Holds(queue[i], t)
InQueueWith(queue, t, n) ==
    \E i \in 1..Len(queue) : Holds(queue[i], t) /\ queue[i].retries = n

\* C3 as stated: after every attempt that ends unauthenticated the pending
\* queue holds a record for its 4-tuple with retries=1.
C3_AlwaysPendingOnce ==
    [][\A t \in Attempts : Rejected(t) => InQueueWith(_auth_pending', t, 1)]_vars

\* C3 (amended): after every attempt that ends unauthenticated a record for
\* its 4-tuple is in the pending queue or in the denied queue; when the
\* tuple was in neither queue before, the pending queue holds a record for
\* it with retries=1.
C3_UnauthenticatedRecorded ==
    [][\A t \in Attempts : Rejected(t) =>
          /\ InQueue(_auth_pending', t) \/ InQueue(_auth_denied', t)
          /\ (~InQueue(_auth_pending, t) /\ ~InQueue(_auth_denied, t))
                => InQueueWith(_auth_pending', t, 1)]_vars

\* The attempt NULL / localhost:9999:5:6 is pending with retries=1.
C3_Witness ==
    /\ ~allow_any
    /\ \E t \in Attempts :
        /\ t.address = AddrOther /\ t.mechanism = "NULL"
        /\ Unauthenticated(t)
        /\ InQueueWith(_auth_pending, t, 1)

NoDuplicatePending ==
    \A i, j \in 1..Len(_auth_pending) :
        i # j => \A t \in Attempts :
                    ~(Holds(_auth_pending[i], t) /\ Holds(_auth_pending[j], t))

\* One record holding t has its retries raised by one; nothing else changes.
CountedIn(queue, queueAfter, t) ==
    \E i \in 1..Len(queue) :
        Holds(queue[i], t) /\ queueAfter = [queue EXCEPT ![i].retries = @ + 1]

\* C4: recording an unauthenticated tuple that is in the denied queue raises
\* one denied record of that tuple by one and changes nothing else; else, if
\* it is in the pending queue, it raises that pending record by one and
\* changes nothing else; else it appends one pending record with retries=1.
\* The pending queue never holds two records with the same 4-tuple.
C4_Dedup ==
    /\ []NoDuplicatePending
    /\ [][\A t \in Attempts : Rejected(t) =>
            IF InQueue(_auth_denied, t)
            THEN /\ CountedIn(_auth_denied, _auth_denied', t)
                 /\ _auth_pending' = _auth_pending
            ELSE IF InQueue(_auth_pending, t)
            THEN /\ CountedIn(_auth_pending, _auth_pending', t)
                 /\ _auth_denied' = _auth_denied
            ELSE /\ _auth_denied' = _auth_denied
                 /\ Len(_auth_pending') = Len(_auth_pending) + 1
                 /\ SubSeq(_auth_pending', 1, Len(_auth_pending)) = _auth_pending
                 /\ Holds(_auth_pending'[Len(_auth_pending')], t)
                 /\ _auth_pending'[Len(_auth_pending')].retries = 1]_vars

\* A tuple recorded once and observed twice more: one record, retries=3.
C4_Witness ==
    \E t \in Attempts :
        /\ InQueueWith(_auth_pending, t, 3)
        /\ Cardinality({i \in 1..Len(_auth_pending) : Holds(_auth_pending[i], t)}) = 1

\* The store holds an enabled entry for the record's credentials with no
\* capabilities, groups or roles.
PersistedFor(entries, rec) ==
    \E i \in 1..Len(entries) :
        /\ entries[i].credentials = rec.credentials
        /\ entries[i].enabled
        /\ entries[i].capabilities = <<>>
        /\ entries[i].groups = <<>>
        /\ entries[i].roles = <<>>

PromotedAll(queue, user_id, entries) ==
    \A i \in 1..Len(queue) :
        queue[i].user_id = user_id => PersistedFor(entries, queue[i])

\* C5 as stated: after Approve (Deny) of a user_id present in the pending
\* queue no pending record of that user_id remains and the allow (deny) list
\* holds an enabled entry without capabilities, groups or roles for the
\* credentials of its records, also when several records share the user_id.
C5_ApproveDenyClearsUser ==
    [][\A u \in UserIds :
          /\ (approve_authorization_failure(u) /\ HasUser(_auth_pending, u))
                => /\ ~HasUser(_auth_pending', u)
                   /\ PromotedAll(_auth_pending, u, auth_allow')
          /\ (deny_authorization_failure(u) /\ HasUser(_auth_pending, u))
                => /\ ~HasUser(_auth_pending', u)
                   /\ PromotedAll(_auth_pending, u, auth_deny')]_vars

InStore(user_id) ==
    \E i \in 1..Len(auth_allow \o auth_deny) :
        (auth_allow \o auth_deny)[i].user_id = user_id

\* C6 as stated: Delete of a user_id that is only in the pending queue
\* removes it from the pending queue and leaves the store unchanged.
C6_DeletePendingKeepsStore ==
    [][\A u \in UserIds :
          ( /\ delete_authorization_failure(u)
            /\ HasUser(_auth_pending, u)
            /\ ~HasUser(_auth_approved, u) /\ ~HasUser(_auth_denied, u)
            /\ ~InStore(u) )
                => /\ ~HasUser(_auth_pending', u)
                   /\ auth_allow' = auth_allow
                   /\ auth_deny' = auth_deny]_vars

\* C7 as stated: after Approve(user_id) followed by Delete(user_id), with or
\* without a reload in between, the user_id is in none of the three queues
\* and the store holds no entry for the approved credentials.
C7_ApproveThenDelete ==
    last.op = "approve_delete" =>
        /\ ~HasUser(_auth_pending, last.result.id)
        /\ ~HasUser(_auth_approved, last.result.id)
        /\ ~HasUser(_auth_denied, last.result.id)
        /\ \A i \in 1..Len(auth_allow \o auth_deny) :
              (auth_allow \o auth_deny)[i].credentials
                  # Lit(last.attempt.credentials[1])

\* The method authorizations of the identity's entry, and the list of a method.
RpcOf(allow, identity) == allow[EntryOf(allow, identity)].rpc_method_authorizations
Tracked(allow, identity, method) ==
    /\ EntryOf(allow, identity) # 0
    /\ method \in DOMAIN RpcOf(allow, identity)
Filled(allow, identity, method) ==
    Tracked(allow, identity, method) /\ RpcOf(allow, identity)[method] # <<>>

NoDuplicates(list) == \A i, j \in 1..Len(list) : i # j => list[i] # list[j]

\* The elements of list that are not in `present`, in their order.
NotIn(list, present) == SelectSeq(list, LAMBDA c : c \notin Range(present))

\* C8 as stated: an accepted add_rpc_authorizations sets the list of an
\* untracked or empty method to the given list and otherwise appends the
\* capabilities not already present; repeating the call changes nothing;
\* and, for every input list, the persisted list holds no capability twice.
C8_AddIsSetUnion ==
    [][(last'.op = "add_rpc" /\ last'.outcome = "ok") =>
          LET id == last'.identity
              m == last'.method
              caps == last'.capabilities
              after == RpcOf(auth_allow', id)[m]
          IN  /\ IF Filled(auth_allow, id, m)
                 THEN after = RpcOf(auth_allow, id)[m]
                                \o NotIn(caps, RpcOf(auth_allow, id)[m])
                 ELSE after = caps
              /\ add_rpc_authorizations(auth_allow', id, m, caps, TRUE).allow
                    = auth_allow'
              /\ NoDuplicates(after)]_vars

\* C9: a delete_rpc_authorizations on a non-privileged identity that names
\* every capability of a tracked, non-empty method leaves the method tracked
\* with the sentinel list [""].
C9_SentinelAfterEmptying ==
    [][( /\ last'.op = "delete_rpc"
         /\ ~IsPrivileged(last'.identity)
         /\ Filled(auth_allow, last'.identity, last'.method)
         /\ Range(RpcOf(auth_allow, last'.identity)[last'.method])
                \subseteq Range(last'.capabilities) )
            => /\ Tracked(auth_allow', last'.identity, last'.method)
               /\ RpcOf(auth_allow', last'.identity)[last'.method] = <<"">>]_vars

\* A delete has just emptied a method, which now holds the sentinel.
C9_Witness ==
    /\ last.op = "delete_rpc"
    /\ last.outcome = "ok"
    /\ Tracked(auth_allow, last.identity, last.method)
    /\ RpcOf(auth_allow, last.identity)[last.method] = <<"">>

\* The calls the API rejects, decided on the store before the call.
MustReject(call) ==
    \/ call.identity \in PROCESS_IDENTITIES
    \/ call.identity = CONTROL_CONNECTION
    \/ EntryOf(auth_allow, call.identity) = 0
    \/ /\ call.op = "delete_rpc"
       /\ \/ ~Filled(auth_allow, call.identity, call.method)
          \/ Range(call.capabilities)
                \cap Range(RpcOf(auth_allow, call.identity)[call.method]) = {}

\* C10: an add or delete call that targets a process identity or the control
\* connection, or an identity without entry, and a delete call that names an
\* untracked or empty method or no capability of the method's list, leaves
\* the store unchanged.
C10_RejectedLeavesStore ==
    [][(last'.op \in {"add_rpc", "delete_rpc"} /\ MustReject(last'))
          => /\ auth_allow' = auth_allow
             /\ auth_deny' = auth_deny
             /\ last'.outcome = "rejected"]_vars

\* A delete that named none of the capabilities of a filled method of an
\* existing, non-privileged identity has just been rejected.
C10_Witness ==
    /\ last.op = "delete_rpc"
    /\ last.outcome = "rejected"
    /\ ~IsPrivileged(last.identity)
    /\ Filled(auth_allow, last.identity, last.method)
    /\ last.capabilities # <<>>
    /\ Range(last.capabilities)
          \cap Range(RpcOf(auth_allow, last.identity)[last.method]) = {}

\* The persisted method authorizations of an identity ({} when it has none).
PersistedRpc(allow, identity) ==
    IF EntryOf(allow, identity) = 0 THEN NoRpc ELSE RpcOf(allow, identity)

\* C11 as stated: a self-report of a process identity or of the control
\* connection is rejected and leaves the persisted method authorizations of
\* its entry unchanged.
C11_ReportGuarded ==
    [][( /\ last'.op = "update_id_rpc"
         /\ \/ last'.identity \in PROCESS_IDENTITIES
            \/ last'.identity = CONTROL_CONNECTION )
          => /\ last'.returned = ReturnedNone
             /\ PersistedRpc(auth_allow', last'.identity)
                    = PersistedRpc(auth_allow, last'.identity)]_vars

\* C12: a self-report of an identity that has an entry overwrites, for every
\* reported method, the persisted list by the reported one only if the method
\* is absent or empty in the entry and keeps it otherwise; the returned
\* mapping has exactly the reported methods as keys and equals, for each, the
\* persisted list after the call; methods not reported and the other entries
\* are left unchanged.
C12_ReportMerges ==
    [][( /\ last'.op = "update_id_rpc"
         /\ EntryOf(auth_allow, last'.identity) # 0 )
          => LET id == last'.identity
                 before == RpcOf(auth_allow, id)
                 after == RpcOf(auth_allow', id)
                 reported == last'.reported
                 returned == last'.returned.dict
             IN  /\ last'.returned.kind = "dict"
                 /\ DOMAIN returned = DOMAIN reported
                 /\ DOMAIN after = DOMAIN before \cup DOMAIN reported
                 /\ \A m \in DOMAIN reported :
                        /\ after[m] = IF m \notin DOMAIN before THEN reported[m]
                                      ELSE IF before[m] = <<>> THEN reported[m]
                                      ELSE before[m]
                        /\ returned[m] = after[m]
                 /\ \A m \in DOMAIN before \ DOMAIN reported :
                        after[m] = before[m]
                 /\ \A i \in 1..Len(auth_allow) :
                        i # EntryOf(auth_allow, id)
                            => auth_allow'[i] = auth_allow[i]
                 /\ Len(auth_allow') = Len(auth_allow)]_vars

\* A report has just filled an empty or absent method and been overruled on
\* another, whose persisted list it was handed back.
C12_Witness ==
    /\ last.op = "update_id_rpc"
    /\ last.returned.kind = "dict"
    /\ \E m, n \in DOMAIN last.reported :
        /\ m # n
        /\ last.reported[m] # <<>>
        /\ last.returned.dict[m] = last.reported[m]
        /\ last.returned.dict[n] # last.reported[n]
        /\ last.returned.dict[n] = RpcOf(auth_allow, last.identity)[n]

\* No pattern-credential entry precedes a literal-credential entry.
LiteralFirst(entries) ==
    \A i, j \in 1..Len(entries) :
        i < j => ~(IsPattern(entries[i]) /\ IsLiteral(entries[j]))

Occurrences(entries, e) == Cardinality({i \in 1..Len(entries) : entries[i] = e})

\* b holds exactly the enabled entries of a, each as often as a does.
ExactlyEnabled(a, b) ==
    /\ \A i \in 1..Len(b) : b[i].enabled
    /\ \A e \in Range(a) \cup Range(b) :
          Occurrences(b, e) = IF e.enabled THEN Occurrences(a, e) ELSE 0

C20_CertsFailureIndependent ==
    [][( /\ last'.op \in {"approve", "deny", "delete"}
         /\ last'.certs # "ok"
         /\ HasUser(_auth_pending, last'.user_id) )
          => /\ last'.outcome = "returned"
             /\ Len(_auth_pending') < Len(_auth_pending)
             /\ FirstOf(_auth_pending, last'.user_id) \notin Range(_auth_pending')
             /\ last'.op = "approve" =>
                    /\ approve_authorization_failure(last'.user_id)
                    /\ PersistedFor(auth_allow',
                                    FirstOf(_auth_pending, last'.user_id))
             /\ last'.op = "deny" =>
                    /\ deny_authorization_failure(last'.user_id)
                    /\ PersistedFor(auth_deny',
                                    FirstOf(_auth_pending, last'.user_id))
             /\ last'.op = "delete" =>
                    delete_authorization_failure(last'.user_id)]_vars

\* A denial whose certificate call failed has moved a pending record to the
\* deny list.
C20_Witness ==
    /\ last.op = "deny"
    /\ last.certs = "ValueError"
    /\ last.outcome = "returned"
    /\ ~HasUser(_auth_pending, last.user_id)
    /\ \E i \in 1..Len(auth_deny) :
          auth_deny[i].user_id = last.user_id /\ auth_deny[i].comments = SetupComment

\* The calls a step adds to the log, and those of them with a given method.
Added == SubSeq(sent', Len(sent) + 1, Len(sent'))
AddedOf(method) == SelectSeq(Added, LAMBDA call : call.method = method)
WithCapabilities(rpc) == {m \in DOMAIN rpc : rpc[m] # <<>>}
BulkPush == "auth.set_multiple_rpc_authorizations"
SinglePush == "auth.set_rpc_authorizations"

\* C13: reconciling an entry of the diff of which at least one method has a
\* non-empty capability list sends its identity exactly one bulk push, whose
\* payload holds exactly the methods with non-empty lists and their lists;
\* an entry whose methods all have empty lists causes no push at all.
C13_OneBulkPushOfNonEmpty ==
    [][task.pc = "reconcile" /\ task' # task =>
        LET entry == task.modified_entries[task.k]
            rpc == entry.rpc_method_authorizations
            bulks == AddedOf(BulkPush)
        IN  IF WithCapabilities(rpc) # {}
            THEN /\ Len(bulks) = 1
                 /\ bulks[1].to = entry.identity
                 /\ DOMAIN bulks[1].payload = WithCapabilities(rpc)
                 /\ \A m \in WithCapabilities(rpc) : bulks[1].payload[m] = rpc[m]
            ELSE /\ bulks = <<>>
                 /\ AddedOf(SinglePush) = <<>>]_vars

\* sensor1 with {get_point: [operator], set_point: []} was sent the single
\* bulk push {get_point: [operator]}.
C13_Witness ==
    /\ \E n \in 1..Len(sent) :
          /\ sent[n].method = BulkPush
          /\ sent[n].to = "sensor1"
          /\ sent[n].payload = [m \in {"get_point"} |-> <<"operator">>]
    /\ \E n \in 1..Len(auth_entries) :
          /\ auth_entries[n].identity = "sensor1"
          /\ auth_entries[n].rpc_method_authorizations["set_point"] = <<>>

\* C14: when the bulk push of a reconcile step is answered by a remote
\* rejection, the step makes exactly one individual call per method of the
\* batch and none for a method left out of it, however the individual calls
\* end; the step goes on to the next entry of the diff, or ends the reload
\* normally after the last one, and never raises.
C14_FallbackPerMethod ==
    [][task.pc = "reconcile" /\ task' # task =>
        LET entry == task.modified_entries[task.k]
            rpc == entry.rpc_method_authorizations
            bulks == AddedOf(BulkPush)
            singles == AddedOf(SinglePush)
        IN  /\ IF bulks # <<>> /\ bulks[1].answer = "rejected"
               THEN /\ Len(singles) = Cardinality(WithCapabilities(rpc))
                    /\ \A m \in WithCapabilities(rpc) :
                          \E n \in 1..Len(singles) :
                              /\ singles[n].to = entry.identity
                              /\ singles[n].payload = [o \in {m} |-> rpc[m]]
                    /\ IF task.k < Len(task.modified_entries)
                       THEN task'.pc = "reconcile" /\ task'.k = task.k + 1
                       ELSE task'.pc = "idle" /\ task'.outcome = "ok"
               ELSE singles = <<>>
            /\ task'.outcome # "raised"]_vars

\* A reload has returned after a rejected bulk push to agent2, a rejected
\* individual call for get_point, the individual call for set_point and
\* then the bulk push of the next identity.
C14_Witness ==
    /\ task.pc = "idle"
    /\ task.outcome = "ok"
    /\ \E a, b, c, d \in 1..Len(sent) :
          /\ a < b /\ b < c /\ c < d
          /\ sent[a].method = BulkPush /\ sent[a].to = "agent2"
          /\ sent[a].answer = "rejected"
          /\ sent[b].method = SinglePush /\ sent[b].to = "agent2"
          /\ DOMAIN sent[b].payload = {"get_point"}
          /\ sent[b].answer = "rejected"
          /\ sent[c].method = SinglePush /\ sent[c].to = "agent2"
          /\ DOMAIN sent[c].payload = {"set_point"}
          /\ sent[d].method = BulkPush /\ sent[d].to = "sensor1"

\* The whole of a list of entries as a snapshot holds it.
Complete(entries) == Sort(SelectSeq(entries, LAMBDA entry : entry.enabled))

\* C16: at every point where another task may run, the list authenticate
\* iterates is the complete snapshot of the entries the reload has read or,
\* while the reload is still reading, the complete snapshot of the entries
\* held before it; never a list made of both.
C16_SnapshotAtomic ==
    \/ auth_entries = Complete(auth_data.allow)
    \/ /\ task.pc = "load"
       /\ auth_entries = Complete(task.old_entries)

\* A connection was authenticated since the reload began, and the reload,
\* which replaced the snapshot by a different one, is waiting for peers.
C16_Witness ==
    /\ task.pc \in {"peerlist", "reconcile"}
    /\ task.changed
    /\ auth_entries # <<>>
    /\ last.op = "auth"
    /\ last.result = UserId("sensor1")

\* C17: once a reload of the attached service has raised because the
\* propagation failed, the snapshot is the complete one of the entries that
\* reload read and the approved and denied caches are the ones built from
\* them, so that authenticate matches against the newly read entries.
C17_FailedReloadKeepsNewSnapshot ==
    /\ [](task.outcome = "raised" =>
            /\ auth_entries = Complete(auth_data.allow)
            /\ _auth_approved = _update_auth_lists(auth_data.allow)
            /\ _auth_denied = _update_auth_lists(auth_data.deny))
    /\ [][task.outcome = "raised" /\ last'.op = "auth" /\ last' # last =>
            \/ /\ last'.result = UserId("sensor1")
               /\ \E n \in 1..Len(auth_data.allow) :
                     /\ auth_data.allow[n].identity = "sensor1"
                     /\ auth_data.allow[n].enabled
            \/ /\ last'.result = NoUser
               /\ \A n \in 1..Len(auth_data.allow) :
                     \/ auth_data.allow[n].identity # "sensor1"
                     \/ ~auth_data.allow[n].enabled]_vars

\* A reload that found no peers has raised after replacing the snapshot by
\* a different one, and sensor1, which the new entries admit, was admitted.
C17_Witness ==
    /\ task.outcome = "raised"
    /\ task.changed
    /\ _is_connected
    /\ last.op = "auth"
    /\ last.result = UserId("sensor1")
    /\ Len(sent) = 3
    /\ \A n \in 1..Len(sent) : sent[n].method = "peerlist"

\* The peer list queries logged so far, and whom a step sends the map to.
QueriesOf(log) == SelectSeq(log, LAMBDA call : call.method = "peerlist")
Delivered == {Added[n].to : n \in {o \in 1..Len(Added) : Added[o].method = "auth.update"}}
Addressees(lists) ==
    {{list[n] : n \in 1..Len(list)} \ {OwnIdentity, CONTROL_CONNECTION} : list \in lists}

\* C18: a broadcast makes at most three peer list queries; a step whose
\* query failed delivers to the peers of the cached list and one whose query
\* succeeded to those it answered; before the third query a step without
\* peers asks again and does not raise; the third query without peers
\* raises the fatal error, and then no peer has been delivered to.
C18_BoundedPeerQueries ==
    [][task.pc = "peerlist" /\ task' # task =>
        /\ Len(QueriesOf(sent')) = task.i + 1
        /\ Len(QueriesOf(sent')) <= 3
        /\ Len(QueriesOf(Added)) = 1
        /\ Added[1].payload \in IF Added[1].answer = "failed"
                                THEN CachedPeerLists ELSE LivePeerLists
        /\ Delivered \in Addressees({Added[1].payload})
        /\ IF Delivered # {}
           THEN task'.outcome # "raised"
           ELSE IF task.i + 1 < 3
           THEN task'.pc = "peerlist" /\ task'.i = task.i + 1
           ELSE /\ task'.outcome = "raised"
                /\ \A n \in 1..Len(sent') : sent'[n].method = "peerlist"]_vars

\* The broadcast raised after a failed query answered by an empty cached
\* list, and two live queries that named no peer.
C18_Witness ==
    /\ task.outcome = "raised"
    /\ Len(sent) = 3
    /\ sent[1].method = "peerlist" /\ sent[1].answer = "failed"
    /\ sent[2].method = "peerlist" /\ sent[2].answer = "ok"
    /\ sent[3].method = "peerlist" /\ sent[3].answer = "ok"

\* The peers the last query of the log yielded, and the deliveries to a peer.
Discovered ==
    LET queries == QueriesOf(sent)
    IN  IF queries = <<>> THEN {}
        ELSE {queries[Len(queries)].payload[n] :
                  n \in 1..Len(queries[Len(queries)].payload)}
DeliveriesTo(peer) ==
    Len(SelectSeq(sent, LAMBDA call : call.method = "auth.update" /\ call.to = peer))

\* C19: at every point of a broadcast and after it, each peer of the peer
\* set obtained, other than the service's own identity and the control
\* connection, has been sent the capability map exactly once, whether the
\* delivery failed or not, and every other identity has been sent none.
C19_OneDeliveryPerPeer ==
    \A peer \in PeerNames :
        DeliveriesTo(peer) =
            IF peer \in Discovered \ {OwnIdentity, CONTROL_CONNECTION} THEN 1 ELSE 0

\* A reload has returned whose broadcast found the service itself, the
\* control connection and sensor1, and whose one delivery to sensor1 failed.
C19_Witness ==
    /\ task.pc = "idle"
    /\ task.outcome = "ok"
    /\ Discovered = {OwnIdentity, CONTROL_CONNECTION, "sensor1"}
    /\ DeliveriesTo("sensor1") = 1
    /\ \E n \in 1..Len(sent) :
          /\ sent[n].method = "auth.update"
          /\ sent[n].to = "sensor1"
          /\ sent[n].answer = "failed"
    /\ \E n \in 1..Len(sent) : sent[n].method = BulkPush

\* The entries of the store made from a queue record.
EntriesOf(record) ==
    SelectSeq(auth_allow' \o auth_deny',
              LAMBDA entry : entry.credentials = record.credentials)

\* C21: an approve, deny or delete during which a call of the store raised
\* returns to its caller all the same, whether the call was the add of the
\* pending record, the flip of an approved or denied entry or a removal;
\* and when the add of an approve failed, the pending record is gone from
\* the queue while the store has no entry of it.
C21_StoreErrorsCaught ==
    [][last'.op \in {"approve", "deny", "delete"} =>
        /\ last'.outcome = "returned"
        /\ (last'.op = "approve" /\ last'.record # NoRecord /\ ~last'.add_ok) =>
              /\ last'.record \notin Range(_auth_pending')
              /\ EntriesOf(last'.record) = <<>>]_vars

\* C22: a reload that had data before reads the store again only after an
\* empty read and at most three times after the first read; a non-empty
\* read, or the empty read of the third retry, is accepted and installed,
\* and the reload goes on.
C22_BoundedStoreRead ==
    [][task.pc = "load" /\ task' # task =>
        /\ task.count <= 3
        /\ IF task.had_data /\ auth_allow = <<>> /\ task.count < 3
           THEN /\ task'.pc = "load"
                /\ task'.count = task.count + 1
                /\ auth_entries' = auth_entries
           ELSE /\ task'.pc # "load"
                /\ auth_entries' = Complete(auth_allow)]_vars

\* Three retries have been made since the reload began on a store that
\* held entries, and the store is still read empty.
C22_Witness ==
    /\ task.pc = "load"
    /\ task.had_data
    /\ task.old_entries # <<>>
    /\ task.count = 3
    /\ auth_allow = <<>>

\* A step that rebuilds both queues from the store, as a reload does.
Rebuilt ==
    /\ _auth_approved' = _update_auth_lists(auth_allow)
    /\ _auth_denied' = _update_auth_lists(auth_deny)
    /\ UNCHANGED <<auth_allow, auth_deny, _auth_pending>>

\* A step that adds one to the retries of one denied record.
OneRetryMore ==
    \E d \in 1..Len(_auth_denied) :
        _auth_denied' = [_auth_denied EXCEPT ![d].retries = @ + 1]

\* C23 as stated: every approved and every denied record has retries 0 in
\* every state, and a step that changes either queue is a reload.
C23_QueuesReadOnly ==
    /\ [](\A rec \in Range(_auth_approved \o _auth_denied) : rec.retries = 0)
    /\ [][(_auth_approved' # _auth_approved \/ _auth_denied' # _auth_denied)
            => Rebuilt]_vars

\* C23, amended: every approved record has retries 0 in every state and a
\* step that changes the approved queue is a reload; a step that changes
\* the denied queue is a reload or adds one to the retries of one denied
\* record and changes no other field and no other record.
C23_QueuesChangedByReloadOrRetry ==
    /\ [](\A rec \in Range(_auth_approved) : rec.retries = 0)
    /\ [][/\ _auth_approved' # _auth_approved => Rebuilt
          /\ _auth_denied' # _auth_denied => Rebuilt \/ OneRetryMore]_vars

\* A denied record has counted a retry while the approved queue holds a
\* record.
C23_Witness ==
    /\ \E rec \in Range(_auth_denied) : rec.retries > 0
    /\ _auth_approved # <<>>

\* The identities of a list of entries.
IdentitiesOf(entries) == {entries[n].identity : n \in 1..Len(entries)}

\* The identities the diff of a new snapshot against an old one is to name.
Changed(old, new) ==
    {entry.identity : entry \in
        {e \in Range(new) :
            /\ e.identity # None
            /\ e.identity \notin PROCESS_IDENTITIES \cup {CONTROL_CONNECTION}
            /\ \A o \in Range(old) :
                  o.identity = e.identity =>
                      o.rpc_method_authorizations # e.rpc_method_authorizations}}

\* C24: the diff a reload computes names, once each, exactly the
\* identities of the new enabled snapshot that are not privileged and whose
\* authorizations differ from those of the previous enabled snapshot or
\* that had no entry there, and every entry of the diff is enabled.
C24_DiffOfSnapshots ==
    [][task.pc = "load" /\ task.had_data /\ task'.pc = "settle" =>
        LET diff == task'.modified_entries
            wanted == Changed(Complete(task.old_entries), Complete(auth_allow))
        IN  /\ IdentitiesOf(diff) = wanted
            /\ Len(diff) = Cardinality(wanted)
            /\ \A n \in 1..Len(diff) : diff[n].enabled]_vars

\* C25: a reload of the attached service, with or without data loaded
\* before, goes from the settle delay into the broadcast with the snapshot
\* of the entries it read installed, and from the deliveries of the
\* broadcast into the reconciliation exactly when its diff is not empty; a
\* reload of the service that is not attached sends nothing.
C25_AttachedReloadBroadcasts ==
    [][/\ task.pc = "settle" /\ task' # task =>
            /\ auth_entries = Complete(task.entries)
            /\ task'.pc = "peerlist"
       /\ task.pc = "peerlist" /\ task' # task /\ Delivered # {} =>
            (task'.pc = "reconcile" <=> task.modified_entries # <<>>)
       /\ task.pc = "load" /\ task'.pc = "idle" =>
            ~_is_connected /\ task'.outcome = "ok"
       /\ ~_is_connected => sent' = <<>>]_vars

\* The bulk pushes the log holds for an identity.
BulkPushesTo(identity) ==
    Len(SelectSeq(sent, LAMBDA call : call.method = BulkPush /\ call.to = identity))

\* C26: a reconcile step whose bulk push times out makes no individual
\* call and no second bulk push, and goes on to the next entry of the diff
\* or ends the reload normally; no later step of the run pushes to that
\* identity again.
C26_TimeoutIsDone ==
    /\ [](\A identity \in PeerNames : BulkPushesTo(identity) <= 1)
    /\ [][(/\ task.pc = "reconcile" /\ task' # task
           /\ AddedOf(BulkPush) # <<>>
           /\ AddedOf(BulkPush)[1].answer = "timeout") =>
            /\ Len(AddedOf(BulkPush)) = 1
            /\ AddedOf(SinglePush) = <<>>
            /\ IF task.k < Len(task.modified_entries)
               THEN task'.pc = "reconcile" /\ task'.k = task.k + 1
               ELSE task'.pc = "idle" /\ task'.outcome = "ok"]_vars

\* A reload has returned after a bulk push to agent2 that timed out,
\* directly followed by the bulk push to sensor1.
C26_Witness ==
    /\ task.pc = "idle"
    /\ task.outcome = "ok"
    /\ \E n \in 1..Len(sent) - 1 :
          /\ sent[n].method = BulkPush /\ sent[n].to = "agent2"
          /\ sent[n].answer = "timeout"
          /\ sent[n + 1].method = BulkPush /\ sent[n + 1].to = "sensor1"

\* C27: when the reconciliation of a reload has ended, every entry of its
\* diff with a non-empty capability list has been sent a bulk push, also
\* the entries that follow one whose peer could not be reached.
C27_UnreachablePeerSkipped ==
    [][task.pc = "reconcile" /\ task'.pc = "idle" =>
        \A n \in 1..Len(task.modified_entries) :
            WithCapabilities(task.modified_entries[n].rpc_method_authorizations) # {}
                => \E o \in 1..Len(sent') :
                      /\ sent'[o].method = BulkPush
                      /\ sent'[o].to = task.modified_entries[n].identity]_vars

\* C28: a reload that has reached the reconciliation returns, whether or
\* not a peer ever answers its bulk push, and so does every reload begun
\* while a reconciliation greenlet of an earlier reload is still waiting;
\* such a greenlet ends; and while a reconciliation waits, in the reload or
\* detached from it, a new reload can begin once the running one has
\* returned, and a pending record can be deleted.
C28_ReconciliationCannotStall ==
    /\ (task.pc = "reconcile") ~> (task.pc = "idle")
    /\ (detached # <<>> /\ task.pc # "idle") ~> (task.pc = "idle")
    /\ (detached # <<>>) ~> (detached = <<>>)
    /\ [](detached # <<>> /\ task.pc = "idle" => ENABLED ReloadStart)
    /\ [](/\ task.pc = "reconcile" \/ detached # <<>>
          /\ HasUser(_auth_pending, "u1") /\ Promoted < MaxPromoted
          => ENABLED (delete_authorization_failure("u1") /\ last' = NoLast))

\* A reload has begun and returned, and a connection has been refused and
\* recorded, while the greenlet of an earlier reload, whose first pushes
\* were never answered, is still waiting.
C28_Witness ==
    /\ detached # <<>>
    /\ task.pc = "idle" /\ task.outcome = "ok"
    /\ sent # <<>>
    /\ \A n \in 1..Len(sent) : sent[n].method # BulkPush
    /\ _auth_pending # <<>>

\* The entries of an identity in a list of entries.
EntriesFor(identity, entries) ==
    SelectSeq(entries, LAMBDA entry : entry.identity = identity)

\* C29: when the bulk push to an identity timed out in one reload, the
\* next reload, finding the identity's entry in the store as that reload
\* left it, has the identity in its diff again.
C29_NextReloadPushesAgain ==
    [][task.pc = "load" /\ task.had_data /\ task'.pc = "settle" =>
        \A x \in task.owed :
            /\ EntriesFor(x, auth_allow) # <<>>
            /\ EntriesFor(x, auth_allow) = EntriesFor(x, task.old_entries)
            => x \in IdentitiesOf(task'.modified_entries)]_vars

\* C30: for the user id of an entry of the snapshot, get_capabilities
\* answers what the map of get_user_to_capabilities holds for it.
C30_MapAgreesWithQuery ==
    /\ last.op = "get_capabilities"
    /\ last.user_id \in DOMAIN last.broadcast
    => last.broadcast[last.user_id] = last.result

\* C31: after any calls of add_rpc_authorizations and
\* delete_rpc_authorizations with non-empty capability names, a method's
\* list in the store holds the empty string only when it is the list [""].
C31_SentinelStandsAlone ==
    \A i \in 1..Len(auth_allow) :
        \A method \in DOMAIN auth_allow[i].rpc_method_authorizations :
            LET list == auth_allow[i].rpc_method_authorizations[method]
            IN  "" \in Range(list) => list = <<"">>

\* The payload of the last bulk push to an identity among the calls sent.
LastPushTo(identity) ==
    LET at == {n \in 1..Len(sent) :
                  sent[n].method = BulkPush /\ sent[n].to = identity}
    IN  sent[CHOOSE n \in at : \A o \in at : o <= n].payload

====
